---------------------------- MODULE Spec2Model ----------------------------
(***************************************************************************)
(* Island simulation: the agent decision, coordination and state engine.   *)
(*                                                                         *)
(* The module holds several specifications over one set of variables:      *)
(*   SpecRng    the seeded generator of config.js                          *)
(*   SpecInv    the inventory helpers of systems/resources.js              *)
(*   SpecNeeds  the needs engine of systems/resources.js                   *)
(*   Spec       the tick loop: updateTribeMembers and regenerateCoconuts   *)
(*   SpecDet    two runs of the tick loop side by side                     *)
(* Each specification leaves the variables of the others untouched.        *)
(*                                                                         *)
(* Numbers.  JavaScript numbers are doubles; the model keeps them exact as *)
(* scaled integers (the scale is named at each use).  TLC integers are 32  *)
(* bit, so products that would overflow are split (see seededRandom).      *)
(***************************************************************************)
EXTENDS Integers, Sequences, FiniteSets, TLC

VARIABLES
    seed,        \* config.js: let _seed
    rngLog,      \* values returned by seededRandom since the last resetSeed
    rngFirst,    \* the values the first run after resetSeed(rngArg) returned
    rngArg,      \* the argument of the last resetSeed call (-1 before any)
    inventory,   \* the inventory object under test
    now,         \* Date.now(), in milliseconds
    ret,         \* the value the last inventory call returned
    prevInv,     \* the inventory just before the last inventory call
    lastCall,    \* the last inventory call and its arguments
    invLog,      \* every inventory call so far: its arguments, the inventory
                 \* before it and the value it returned
    needsObj,    \* the needs object under test
    needsN,      \* number of calls made on it
    zeroSpan,    \* the summed delta of the latest updateNeeds calls in a row
                 \* in which the agent did not rest and that ended their
                 \* energy step with energy <= 0
    gestation,   \* the pregnancies of the needs object so far, the give_birth
                 \* events returned, the summed delta of the updateNeeds
                 \* calls of the current pregnancy
    skillsObj,   \* the skills object under test
    skillsN,     \* number of addSkillXP calls made on it
    simulationSpeed,  \* config.js: CONFIG.simulationSpeed
    catchCall,   \* the attemptCatch calls under test: the agent's fishing level,
                 \* energy and attempt counter, the last call's rate and result
    tribeMembers,     \* resources.js: let tribeMembers, agent index -> member
    hut,              \* resources.js: let hut, its storage
    allTrees,         \* resources.js: let allTrees, palms then jungle trees
    allRocks,         \* resources.js: let allRocks
    fishList,         \* resources.js: let fishList
    claimedResources, \* ai.js: TribeCoordinator.claimedResources
    criticalNeeds,    \* ai.js: TribeCoordinator.criticalNeeds
    fishingAttempts,  \* config.js: FishingSystem.fishingAttempts
    totalDeaths,      \* resources.js: let totalDeaths
    pc,               \* the member the forEach of updateTribeMembers is at, and
                      \* the step of its turn
    tick,             \* calls of stepSimulation completed
    planLog,          \* this tick's improvedPlanTask calls: what each one found
    replay,           \* SpecDet: the world of the second run
    socials,          \* ai.js: the social state of each agent, by agent id
    socialCall,       \* the last call of the social system and how it ended
    threat,           \* part_003: the threat instance under test
    threatCall,       \* the last updateThreat or damageThreat call: the state
                      \* before it, its inputs and what it returned
    combat,           \* the last calculateCombatOutcome call
    frame             \* resources.js: simulationAccumulator, and the steps of
                      \* the animate call in progress

rngVars == <<seed, rngLog, rngFirst, rngArg>>
invVars == <<inventory, now, ret, prevInv, lastCall, invLog>>
needVars == <<needsObj, needsN, zeroSpan, gestation>>
skillVars == <<skillsObj, skillsN>>
catchVars == <<catchCall>>
speedVars == <<simulationSpeed>>
simVars == <<tribeMembers, hut, allTrees, allRocks, fishList, claimedResources,
            criticalNeeds, fishingAttempts, totalDeaths, pc, tick, planLog, replay>>
socialVars == <<socials, socialCall>>
threatVars == <<threat, threatCall>>
combatVars == <<combat>>
frameVars == <<frame>>
lateVars == <<socialVars, threatVars, combatVars, frameVars>>
vars == <<seed, rngLog, rngFirst, rngArg, inventory, now, ret, prevInv, lastCall,
          invLog, needsObj, needsN, zeroSpan, gestation, skillsObj, skillsN, catchCall,
          simulationSpeed, simVars, socials, socialCall, threat, threatCall, combat,
          frame>>
notRng == <<invVars, needVars, skillVars, catchVars, speedVars, simVars, lateVars>>
notInv == <<rngVars, needVars, skillVars, catchVars, speedVars, simVars, lateVars>>
notNeeds == <<rngVars, invVars, skillVars, catchVars, speedVars, simVars, lateVars>>
notSkills == <<rngVars, invVars, needVars, catchVars, speedVars, simVars, lateVars>>
notCatch == <<rngLog, rngFirst, rngArg, invVars, needVars, skillVars, speedVars, simVars, lateVars>>
notSim == <<rngLog, rngFirst, rngArg, inventory, now, ret, prevInv, lastCall, invLog,
           needVars, skillVars, catchVars, speedVars, lateVars>>

Min(a, b) == IF a < b THEN a ELSE b
Max(a, b) == IF a > b THEN a ELSE b

(***************************************************************************)
(* config.js: the seeded generator                                         *)
(***************************************************************************)
RngModulus == 233280
RngMultiplier == 9301
RngIncrement == 49297
ConfigSeed == 12345

\* (_seed * 9301 + 49297) % 233280.  _seed * 9301 exceeds 2^31 for the larger
\* seeds, so the product is reduced in two steps: 9301 = 93 * 100 + 1.
NextSeed(s) ==
    ((((s * (RngMultiplier \div 100)) % RngModulus) * 100
        + s * (RngMultiplier % 100) + RngIncrement) % RngModulus)

\* seededRandom(): the new _seed; the value returned is _seed / 233280,
\* kept as the numerator _seed over the denominator RngModulus.
seededRandom(s) == NextSeed(s)

\* resetSeed that keeps the running state instead of storing its argument
resetSeedIgnored(s, arg) == s

\* resetSeed(seed): _seed = seed
resetSeed(s, arg) == arg

(***************************************************************************)
(* systems/resources.js: resource and tool tables.  stackSize 0 stands for *)
(* "no stackSize" and spoilTime 0 for "no spoilTime" (seconds otherwise).  *)
(* An id outside the table is one RESOURCES does not define ('fish').      *)
(***************************************************************************)
RESOURCES ==
    [coconut    |-> [stackSize |-> 6,  spoilTime |-> 0,   nutrition |-> 350000],
     mullet     |-> [stackSize |-> 4,  spoilTime |-> 120, nutrition |-> 150000],
     grouper    |-> [stackSize |-> 2,  spoilTime |-> 80,  nutrition |-> 500000],
     wood       |-> [stackSize |-> 10, spoilTime |-> 0,   nutrition |-> 0],
     stone      |-> [stackSize |-> 8,  spoilTime |-> 0,   nutrition |-> 0],
     vine       |-> [stackSize |-> 8,  spoilTime |-> 0,   nutrition |-> 0],
     squid_beak |-> [stackSize |-> 1,  spoilTime |-> 0,   nutrition |-> 0]]

TOOLS ==
    [fishing_spear   |-> [recipe |-> [wood |-> 2, stone |-> 1], durability |-> 15],
     gathering_stick |-> [recipe |-> [wood |-> 2, vine |-> 1],  durability |-> 20]]

DefaultStackSize == 10

Put(f, k, v) == [x \in (DOMAIN f) \cup {k} |-> IF x = k THEN v ELSE f[x]]
Drop(f, k) == [x \in (DOMAIN f) \ {k} |-> f[x]]
NoSlots == [x \in {} |-> 0]

\* createInventory(maxSlots)
createInventory(maxSlots) ==
    [slots |-> NoSlots, maxSlots |-> maxSlots, tools |-> NoSlots, equippedTool |-> "null"]

\* a slot is { count, items[] }; hasItems is FALSE for the slot objects that
\* FishingSystem.addFishToInventory creates, which carry no items array.
\* An item keeps spawnTime and spoilTime (milliseconds).
FreshSlot == [count |-> 0, items |-> <<>>, hasItems |-> TRUE]
SlotOf(inv, resourceId) ==
    IF resourceId \in DOMAIN inv.slots THEN inv.slots[resourceId] ELSE FreshSlot
SlotCount(inv) == Cardinality(DOMAIN inv.slots)
StackSizeOf(resourceId) ==
    IF resourceId \in DOMAIN RESOURCES /\ RESOURCES[resourceId].stackSize # 0
        THEN RESOURCES[resourceId].stackSize ELSE DefaultStackSize

\* addToInventory(inventory, resourceId, count), called at time t = Date.now().
\* Result: the inventory afterwards and the boolean returned.
addToInventory(inv, resourceId, count, t) ==
    LET existing == SlotOf(inv, resourceId)
        stackSize == StackSizeOf(resourceId)
        noRoom == /\ existing.count + count > stackSize
                  /\ SlotCount(inv) >= inv.maxSlots
                  /\ existing.count = 0
        spoilTime == RESOURCES[resourceId].spoilTime
        pushed == IF spoilTime # 0
                    THEN existing.items \o
                         [i \in 1..count |-> [spawnTime |-> t, spoilTime |-> spoilTime * 1000]]
                    ELSE existing.items
        updated == [existing EXCEPT !.count = Min(stackSize, existing.count + count),
                                    !.items = pushed]
    IN  IF resourceId \notin DOMAIN RESOURCES THEN [inv |-> inv, ret |-> "false"]
        ELSE IF noRoom THEN [inv |-> inv, ret |-> "false"]
        ELSE [inv |-> [inv EXCEPT !.slots = Put(inv.slots, resourceId, updated)],
              ret |-> "true"]

removeFromInventoryKeepsSlot(inv, resourceId, count) ==
    IF resourceId \notin DOMAIN inv.slots \/ inv.slots[resourceId].count < count
        THEN [inv |-> inv, ret |-> "null"]
        ELSE [inv |-> [inv EXCEPT !.slots[resourceId].count = @ - count], ret |-> "removed"]

\* removeFromInventory(inventory, resourceId, count).  ret is "null" for the
\* failure value, "removed" for the removed items / { count }, and "TypeError"
\* when existing.items is undefined: the throw comes after count was lowered.
removeFromInventory(inv, resourceId, count) ==
    LET existing == SlotOf(inv, resourceId)
        lowered == existing.count - count
        kept == SubSeq(existing.items, Min(count, Len(existing.items)) + 1,
                       Len(existing.items))
        updated == [existing EXCEPT !.count = lowered, !.items = kept]
    IN  IF resourceId \notin DOMAIN inv.slots \/ existing.count < count
            THEN [inv |-> inv, ret |-> "null"]
        ELSE IF ~existing.hasItems
            THEN [inv |-> [inv EXCEPT !.slots[resourceId].count = lowered],
                  ret |-> "TypeError"]
        ELSE IF lowered <= 0
            THEN [inv |-> [inv EXCEPT !.slots = Drop(inv.slots, resourceId)],
                  ret |-> "removed"]
        ELSE [inv |-> [inv EXCEPT !.slots[resourceId] = updated], ret |-> "removed"]

\* getInventoryCount(inventory, resourceId)
getInventoryCount(inv, resourceId) ==
    IF resourceId \in DOMAIN inv.slots THEN inv.slots[resourceId].count ELSE 0

\* hasInventoryRoom(inventory, resourceId)
hasInventoryRoom(inv, resourceId) ==
    \/ /\ resourceId \in DOMAIN inv.slots
       /\ inv.slots[resourceId].count < StackSizeOf(resourceId)
    \/ SlotCount(inv) < inv.maxSlots

\* updateSpoilage(inventory, currentTime): every tracked item whose age has
\* reached its spoilTime is spliced out and the count lowered by one for each;
\* a slot whose count is <= 0 afterwards is deleted.
Fresh(items, t) == SelectSeq(items, LAMBDA it : t - it.spawnTime < it.spoilTime)
Spoilable(resourceId) ==
    resourceId \in DOMAIN RESOURCES /\ RESOURCES[resourceId].spoilTime # 0
SweptSlot(slot, t) ==
    [slot EXCEPT !.count = slot.count - (Len(slot.items) - Len(Fresh(slot.items, t))),
                 !.items = Fresh(slot.items, t)]
updateSpoilage(inv, t) ==
    LET swept == [r \in DOMAIN inv.slots |->
                    IF Spoilable(r) THEN SweptSlot(inv.slots[r], t) ELSE inv.slots[r]]
        live == {r \in DOMAIN inv.slots : ~Spoilable(r) \/ swept[r].count > 0}
    IN  [inv |-> [inv EXCEPT !.slots = [r \in live |-> swept[r]]], ret |-> "spoiled"]

\* FishingSystem.addFishToInventory(inventory) (config.js).  inventory.capacity
\* is a field no inventory has, so totalItems >= undefined is false and the
\* capacity check never refuses.
addFishToInventory(inv) ==
    LET slot == IF "fish" \in DOMAIN inv.slots
                   THEN [inv.slots["fish"] EXCEPT !.count = @ + 1]
                   ELSE [count |-> 1, items |-> <<>>, hasItems |-> FALSE]
    IN  [inv |-> [inv EXCEPT !.slots = Put(inv.slots, "fish", slot)], ret |-> "true"]

\* addTool(inventory, toolId): durability defaults to the tool's durability
addTool(inv, toolId) ==
    IF toolId \notin DOMAIN TOOLS THEN [inv |-> inv, ret |-> "false"]
    ELSE [inv |-> [inv EXCEPT !.tools =
                      Put(inv.tools, toolId,
                          [durability |-> TOOLS[toolId].durability,
                           maxDurability |-> TOOLS[toolId].durability])],
          ret |-> "true"]

\* equipTool(inventory, toolId)
equipTool(inv, toolId) ==
    IF toolId \notin DOMAIN inv.tools THEN [inv |-> inv, ret |-> "false"]
    ELSE [inv |-> [inv EXCEPT !.equippedTool = toolId], ret |-> "true"]

\* useTool without the unequip of a tool that broke
useToolStaysEquipped(inv, toolId) ==
    IF toolId \notin DOMAIN inv.tools THEN [inv |-> inv, ret |-> "false"]
    ELSE IF inv.tools[toolId].durability - 1 <= 0
        THEN [inv |-> [inv EXCEPT !.tools = Drop(inv.tools, toolId)], ret |-> "false"]
    ELSE [inv |-> [inv EXCEPT !.tools[toolId].durability = @ - 1], ret |-> "true"]

\* useTool(inventory, toolId)
useTool(inv, toolId) ==
    IF toolId \notin DOMAIN inv.tools THEN [inv |-> inv, ret |-> "false"]
    ELSE IF inv.tools[toolId].durability - 1 <= 0
        THEN [inv |-> [inv EXCEPT !.tools = Drop(inv.tools, toolId),
                                  !.equippedTool =
                                      IF inv.equippedTool = toolId THEN "null" ELSE @],
              ret |-> "false"]
    ELSE [inv |-> [inv EXCEPT !.tools[toolId].durability = @ - 1], ret |-> "true"]

\* the ingredients of a recipe in the order of Object.entries(recipe)
RecipeOrder == <<"wood", "stone", "vine">>

RECURSIVE RemoveEach(_, _, _)
\* consumeCraftingResources: the for loop, from ingredient i on
RemoveEach(inv, recipe, i) ==
    IF i > Len(RecipeOrder) THEN inv
    ELSE IF RecipeOrder[i] \in DOMAIN recipe
        THEN RemoveEach(removeFromInventory(inv, RecipeOrder[i], recipe[RecipeOrder[i]]).inv,
                        recipe, i + 1)
    ELSE RemoveEach(inv, recipe, i + 1)

\* consumeCraftingResources(inventory, recipeId)
consumeCraftingResources(inv, recipeId) ==
    IF recipeId \notin DOMAIN TOOLS THEN [inv |-> inv, ret |-> "false"]
    ELSE [inv |-> RemoveEach(inv, TOOLS[recipeId].recipe, 1), ret |-> "true"]

\* canCraft(inventory, recipeId)
canCraft(inv, recipeId) ==
    /\ recipeId \in DOMAIN TOOLS
    /\ \A r \in DOMAIN TOOLS[recipeId].recipe :
           getInventoryCount(inv, r) >= TOOLS[recipeId].recipe[r]

(***************************************************************************)
(* systems/resources.js: needs.  hunger, energy, health, social and        *)
(* reproductionDrive are in millionths (Unit = 1.0); delta and the timers  *)
(* are in milliseconds; age is in thousandths of a year.  A rate of        *)
(* NEEDS_CONFIG is in millionths per second.  A value of Math.random() is  *)
(* a number of millionths in 0 .. Unit - 1.                                *)
(***************************************************************************)
Unit == 1000000

NEEDS_CONFIG ==
    [hungerDecayRate |-> 3000, hungerMovingMult10 |-> 13,
     energyDecayRate |-> 2000, energyRestoreRate |-> 10000,
     energyRestoreShelterMult |-> 2, energyCriticalThreshold |-> 100000,
     healthDecayBase |-> 500, healthRecoverRate |-> 2000,
     healthSicknessDecay |-> 5000,
     socialDecayRate |-> 1000, socialRecoverRate |-> 4000,
     isolationPenaltyRate |-> 200,
     reproductionDriveRate |-> 800, reproductionThreshold |-> 700000,
     ageYearsPerSecond50 |-> 1, maxNaturalAge |-> 95000,
     rawFishSicknessChance |-> 300000, spoiledFoodSicknessChance |-> 700000,
     sicknessSpreadChance |-> 100000, sicknessDuration |-> 60000,
     exhaustionDeathTime |-> 10000, drownEnergyDrain |-> 100000]

\* rate * delta, for a rate in millionths per second and delta in milliseconds
PerCall(rate, delta) == ((rate \div 100) * delta) \div 10

\* getLifeStage(age)
getLifeStage(age) ==
    IF age < 2000 THEN "baby"
    ELSE IF age < 12000 THEN "child"
    ELSE IF age < 50000 THEN "adult"
    ELSE "elder"

\* LIFE_STAGES[stage].canReproduce
canReproduce(stage) == stage = "adult"

\* createAgentNeeds(age); r1, r2, r3 are its three Math.random() values
createAgentNeeds(age, r1, r2, r3) ==
    [hunger |-> 800000 + r1 \div 5,
     energy |-> 900000 + r2 \div 10,
     health |-> Unit,
     social |-> 700000 + (3 * r3) \div 10,
     reproductionDrive |-> 0,
     age |-> age, lifeStage |-> getLifeStage(age),
     isSick |-> FALSE, sicknessTimer |-> 0, exhaustionTimer |-> 0,
     isResting |-> FALSE, inShelter |-> FALSE, inWater |-> FALSE,
     inDeepWater |-> FALSE,
     deathCause |-> "null", alive |-> TRUE,
     isPregnant |-> FALSE, pregnancyTimer |-> 0, pregnancyDuration |-> 30000]

\* createChildNeeds(parent1Needs, parent2Needs)
createChildNeeds(r1, r2, r3) ==
    [createAgentNeeds(0, r1, r2, r3) EXCEPT
        !.hunger = Unit, !.energy = Unit, !.health = Unit, !.social = Unit]

\* a death return that also clears the reproduction and pregnancy state
DiedCleared(n, cause, events) ==
    [needs |-> [n EXCEPT !.alive = FALSE, !.deathCause = cause,
                         !.reproductionDrive = 0, !.isPregnant = FALSE,
                         !.pregnancyTimer = 0],
     alive |-> FALSE, deathCause |-> cause, events |-> Append(events, "death")]

\* events.some(e => e.type === type)
Pushed(events, type) == \E i \in DOMAIN events : events[i] = type

Died(n, cause, events) ==
    [needs |-> [n EXCEPT !.alive = FALSE, !.deathCause = cause],
     alive |-> FALSE, deathCause |-> cause, events |-> Append(events, "death")]

\* updateNeeds: context flags stored, aging
NeedsAged(needs, delta, ctx) ==
    [needs EXCEPT !.isResting = ctx.isResting, !.inShelter = ctx.inShelter,
                  !.inWater = ctx.inWater, !.inDeepWater = ctx.inDeepWater,
                  !.age = @ + NEEDS_CONFIG.ageYearsPerSecond50 * (delta \div 50),
                  !.lifeStage = getLifeStage(
                      needs.age + NEEDS_CONFIG.ageYearsPerSecond50 * (delta \div 50))]

\* updateNeeds: Math.random() < (age - maxNaturalAge) * 0.01 * delta
OldAgeRoll(n, delta, roll) ==
    /\ n.age > NEEDS_CONFIG.maxNaturalAge
    /\ 2 * roll < (n.age - NEEDS_CONFIG.maxNaturalAge) * (delta \div 50)

\* updateNeeds: hunger
NeedsHunger(n, delta, ctx) ==
    LET base == PerCall(NEEDS_CONFIG.hungerDecayRate, delta)
        moving == IF ctx.isMoving
                     THEN (base * NEEDS_CONFIG.hungerMovingMult10) \div 10 ELSE base
        hungerDecay == IF n.isSick THEN moving * 2 ELSE moving
    IN  [n EXCEPT !.hunger = Max(0, n.hunger - hungerDecay)]

\* updateNeeds: energy, then the exhaustion timer of a survivor
\* the energy step without its two resets of exhaustionTimer
NeedsEnergyKeepsTimer(n, delta, ctx) ==
    LET restoreRate == PerCall(NEEDS_CONFIG.energyRestoreRate, delta)
                         * (IF ctx.inShelter
                               THEN NEEDS_CONFIG.energyRestoreShelterMult ELSE 1)
        drainRate == IF ctx.inDeepWater
                        THEN PerCall(NEEDS_CONFIG.drownEnergyDrain, delta)
                        ELSE PerCall(NEEDS_CONFIG.energyDecayRate, delta)
        e == IF ctx.isResting THEN Min(Unit, n.energy + restoreRate)
             ELSE IF ctx.isMoving \/ ctx.inWater THEN Max(0, n.energy - drainRate)
             ELSE n.energy
    IN  [n EXCEPT !.energy = e,
                  !.exhaustionTimer = IF e <= 0 THEN @ + delta ELSE @]

NeedsEnergy(n, delta, ctx) ==
    LET restoreRate == PerCall(NEEDS_CONFIG.energyRestoreRate, delta)
                         * (IF ctx.inShelter
                               THEN NEEDS_CONFIG.energyRestoreShelterMult ELSE 1)
        drainRate == IF ctx.inDeepWater
                        THEN PerCall(NEEDS_CONFIG.drownEnergyDrain, delta)
                        ELSE PerCall(NEEDS_CONFIG.energyDecayRate, delta)
        e == IF ctx.isResting THEN Min(Unit, n.energy + restoreRate)
             ELSE IF ctx.isMoving \/ ctx.inWater THEN Max(0, n.energy - drainRate)
             ELSE n.energy
        t0 == IF ctx.isResting THEN 0 ELSE n.exhaustionTimer
    IN  [n EXCEPT !.energy = e,
                  !.exhaustionTimer = IF e <= 0 THEN t0 + delta ELSE 0]

\* updateNeeds: health
NeedsHealth(n, delta, ctx) ==
    LET healthChange ==
            (0 - PerCall(NEEDS_CONFIG.healthDecayBase, delta))
            - (IF n.isSick THEN PerCall(NEEDS_CONFIG.healthSicknessDecay, delta) ELSE 0)
            + (IF ctx.isResting /\ n.hunger > 500000 /\ ~n.isSick
                  THEN PerCall(NEEDS_CONFIG.healthRecoverRate, delta) ELSE 0)
    IN  [n EXCEPT !.health = Max(0, Min(Unit, n.health + healthChange))]

\* updateNeeds: social, isolation penalty, reproduction drive
NeedsSocial(n, delta, ctx) ==
    LET social == IF ctx.nearbyAgentCount > 0
                     THEN Min(Unit, n.social + PerCall(NEEDS_CONFIG.socialRecoverRate, delta)
                                                  * ctx.nearbyAgentCount)
                     ELSE Max(0, n.social - PerCall(NEEDS_CONFIG.socialDecayRate, delta))
    IN  [n EXCEPT !.social = social,
                  !.health = IF social < 200000
                                THEN Max(0, @ - PerCall(NEEDS_CONFIG.isolationPenaltyRate, delta))
                                ELSE @,
                  !.reproductionDrive =
                      IF canReproduce(n.lifeStage) /\ ~n.isPregnant
                         THEN Min(Unit, @ + PerCall(NEEDS_CONFIG.reproductionDriveRate, delta))
                         ELSE @]

\* updateNeeds: sickness timer, then contagion (its Math.random() is spreadRoll)
NeedsSickness(n, delta, ctx, spreadRoll) ==
    LET timer == IF n.isSick THEN n.sicknessTimer - delta ELSE n.sicknessTimer
        sick == n.isSick /\ timer > 0
        caught == /\ ~sick
                  /\ ctx.nearSickAgent
                  /\ spreadRoll < PerCall(NEEDS_CONFIG.sicknessSpreadChance, delta)
    IN  [n EXCEPT !.isSick = sick \/ caught,
                  !.sicknessTimer = IF caught THEN NEEDS_CONFIG.sicknessDuration ELSE timer]

\* updateNeeds: the events of the sickness block, in the order pushed
SicknessEvents(n, delta, ctx, spreadRoll) ==
    LET after == NeedsSickness(n, delta, ctx, spreadRoll)
        recovered == n.isSick /\ n.sicknessTimer - delta <= 0
    IN  (IF recovered THEN <<"recovered">> ELSE <<>>)
        \o (IF after.isSick /\ (recovered \/ ~n.isSick) THEN <<"got_sick">> ELSE <<>>)

\* the pregnancy block without the reset at birth
NeedsPregnancyGoesOn(n, delta) ==
    IF ~n.isPregnant THEN n
    ELSE [n EXCEPT !.pregnancyTimer = @ + delta,
                   !.energy = IF n.pregnancyTimer + delta >= n.pregnancyDuration
                                 THEN Max(100000, n.energy - 400000) ELSE @]

\* updateNeeds: pregnancy timer and birth
NeedsPregnancy(n, delta) ==
    IF ~n.isPregnant THEN n
    ELSE IF n.pregnancyTimer + delta >= n.pregnancyDuration
        THEN [n EXCEPT !.isPregnant = FALSE, !.pregnancyTimer = 0,
                       !.energy = Max(100000, n.energy - 400000)]
        ELSE [n EXCEPT !.pregnancyTimer = @ + delta]

GivesBirth(n, delta) ==
    n.isPregnant /\ n.pregnancyTimer + delta >= n.pregnancyDuration

\* updateNeeds(needs, delta, context).  rolls holds the values its Math.random()
\* calls return (oldAge, spread, birth).  Result: the needs object afterwards
\* and the returned { alive, deathCause, events }.
updateNeeds(needs, delta, ctx, rolls) ==
    LET aged == NeedsAged(needs, delta, ctx)
        fed == NeedsHunger(aged, delta, ctx)
        tired == NeedsEnergy(fed, delta, ctx)
        forced == IF tired.energy < NEEDS_CONFIG.energyCriticalThreshold /\ ~ctx.isResting
                     THEN <<"forced_rest">> ELSE <<>>
        hurt == NeedsHealth(tired, delta, ctx)
        social == NeedsSocial(hurt, delta, ctx)
        sick == NeedsSickness(social, delta, ctx, rolls.spread)
        born == NeedsPregnancy(sick, delta)
        events == forced \o SicknessEvents(social, delta, ctx, rolls.spread)
                         \o (IF GivesBirth(sick, delta) THEN <<"give_birth">> ELSE <<>>)
    IN  IF ~needs.alive
            THEN [needs |-> needs, alive |-> FALSE,
                  deathCause |-> needs.deathCause, events |-> <<>>]
        ELSE IF OldAgeRoll(aged, delta, rolls.oldAge) THEN Died(aged, "old_age", <<>>)
        ELSE IF fed.hunger <= 0 THEN Died(fed, "starvation", <<>>)
        ELSE IF tired.energy <= 0
                /\ tired.exhaustionTimer >= NEEDS_CONFIG.exhaustionDeathTime
            THEN Died(tired, IF ctx.inDeepWater THEN "drowning" ELSE "exhaustion", <<>>)
        ELSE IF hurt.health <= 0
            THEN Died(hurt, IF hurt.isSick THEN "sickness" ELSE "old_age", forced)
        ELSE IF GivesBirth(sick, delta) /\ rolls.birth < 20000 /\ born.health < 300000
            THEN Died(born, "childbirth", events)
        ELSE [needs |-> born, alive |-> TRUE, deathCause |-> "null", events |-> events]

\* the Math.random() calls one updateNeeds call evaluates, each with the values
\* of samples: the old-age roll past maxNaturalAge, the contagion roll of a
\* healthy agent near a sick one, the complication roll of a birth
RollsDrawn(needs, delta, ctx, samples) ==
    LET aged == NeedsAged(needs, delta, ctx)
    IN  {[oldAge |-> r1, spread |-> r2, birth |-> r3] :
            r1 \in IF aged.age > NEEDS_CONFIG.maxNaturalAge THEN samples ELSE {0},
            r2 \in IF ctx.nearSickAgent THEN samples ELSE {0},
            r3 \in IF needs.isPregnant THEN samples ELSE {0}}

\* consumeFood(needs, { nutrition, isRaw, isSpoiled }); roll is its Math.random()
SicknessChance(needs, isRaw, isSpoiled) ==
    LET base == IF isSpoiled THEN NEEDS_CONFIG.spoiledFoodSicknessChance
                ELSE IF isRaw THEN NEEDS_CONFIG.rawFishSicknessChance ELSE 0
        byStage == IF needs.lifeStage \in {"child", "elder"} THEN (base * 15) \div 10 ELSE base
        byPregnancy == IF needs.isPregnant THEN (byStage * 13) \div 10 ELSE byStage
    IN  IF needs.health < 500000 THEN (byPregnancy * 15) \div 10 ELSE byPregnancy

\* consumeFood without the upper clamp on hunger
consumeFoodUnclamped(needs, nutrition, isRaw, isSpoiled, roll) ==
    [needs EXCEPT !.hunger = needs.hunger + nutrition]

consumeFood(needs, nutrition, isRaw, isSpoiled, roll) ==
    LET chance == SicknessChance(needs, isRaw, isSpoiled)
        gotSick == chance > 0 /\ roll < chance
    IN  [needs EXCEPT !.hunger = Min(Unit, needs.hunger + nutrition),
                      !.isSick = IF gotSick THEN TRUE ELSE @,
                      !.sicknessTimer =
                          IF gotSick THEN NEEDS_CONFIG.sicknessDuration ELSE @]

\* updateFishing, after a catch: needs.energy = Math.max(0, needs.energy - 0.15)
FishingEnergyCost == 150000
fishingEnergyDeduction(needs) ==
    [needs EXCEPT !.energy = Max(0, needs.energy - FishingEnergyCost)]

\* startReproduction(needs1, needs2), seen from needs1: partnerReady stands for
\* the partner's three conditions and pick for Math.random() < 0.5
startReproduction(needs, partnerReady, pick) ==
    IF \/ ~canReproduce(needs.lifeStage) \/ ~partnerReady
       \/ needs.isPregnant
       \/ needs.reproductionDrive < NEEDS_CONFIG.reproductionThreshold
        THEN needs
    ELSE [needs EXCEPT !.isPregnant = pick,
                       !.pregnancyTimer = IF pick THEN 0 ELSE @,
                       !.reproductionDrive = 0]

(***************************************************************************)
(* The island (main entry point, systems/resources.js 1330-3660).          *)
(*                                                                         *)
(* Geometry: the island is a line of cells, CellSize world units each, the *)
(* hut in cell 0.  An agent walks CONFIG.walkSpeed * simulationSpeed *     *)
(* fixedTimestep = 5 units = one cell per tick, straight towards its       *)
(* target.  Two things in the same cell are at distance 0, in neighbouring *)
(* cells at distance 5, and so on; every distance test of the code is      *)
(* taken on these distances.  Agents stay on land (inWater is false).      *)
(* A world value w is the record of the module state of resources.js:      *)
(* tribeMembers, hut, allTrees, allRocks, the coordinator's maps, _seed    *)
(* and totalDeaths.  restTime is in 1/233280 s, actionTimer in ms.         *)
(***************************************************************************)
CellSize == 5
FixedTimestepMs == 50
SimulationSpeed == 50
InventorySlots == 10
TimeScale == RngModulus

CONFIG ==
    [walkSpeed |-> 2, simulationSpeed |-> SimulationSpeed,
     fixedTimestep |-> FixedTimestepMs, coconutNutrition |-> 350000,
     seed |-> ConfigSeed, maxStepsPerFrame |-> 50]

\* delta of one tick in the unit of restTime
DeltaRest == (TimeScale * CONFIG.fixedTimestep) \div 1000

\* distance in world units between two cells
Dist(a, b) == CellSize * (IF a > b THEN a - b ELSE b - a)

\* one tick of walking from cell `from` towards cell `to`
StepTowards(from, to) ==
    IF from < to THEN from + 1 ELSE IF from > to THEN from - 1 ELSE from

HutPos == 0
HutRadius == 4

\* skills (skills.js): createAgentSkills, getXPForLevel, addSkillXP, awardXP
createAgentSkills ==
    [gathering |-> [level |-> 0, xp |-> 0],
     fishing |-> [level |-> 0, xp |-> 0],
     crafting |-> [level |-> 0, xp |-> 0]]

XP_PER_LEVEL == 100
SkillMaxLevel == 100

\* Math.floor(XP_PER_LEVEL * Math.pow(1.15, level)) for level 0..100, in IEEE
\* doubles (100 * 1.15 is 114.99999999999999, so level 1 needs 114)
XPTable ==
    <<100, 114, 132, 152, 174, 201, 231, 266,
      305, 351, 404, 465, 535, 615, 707, 813,
      935, 1076, 1237, 1423, 1636, 1882, 2164, 2489,
      2862, 3291, 3785, 4353, 5006, 5757, 6621, 7614,
      8756, 10069, 11580, 13317, 15315, 17612, 20254, 23292,
      26786, 30804, 35424, 40738, 46849, 53876, 61958, 71252,
      81940, 94231, 108365, 124620, 143313, 164810, 189532, 217962,
      250656, 288255, 331493, 381217, 438399, 504159, 579783, 666751,
      766764, 881778, 1014045, 1166152, 1341075, 1542236, 1773572, 2039607,
      2345548, 2697381, 3101988, 3567286, 4102379, 4717736, 5425397, 6239206,
      7175087, 8251351, 9489053, 10912411, 12549273, 14431664, 16596414, 19085876,
      21948758, 25241071, 29027232, 33381317, 38388515, 44146792, 50768811, 58384132,
      67141752, 77213015, 88794967, 102114213, 117431345>>

getXPForLevel(level) == XPTable[level + 1]

RECURSIVE LevelUpsUncapped(_, _)
LevelUpsUncapped(skill, xpNeeded) ==
    IF skill.xp >= xpNeeded
        THEN LevelUpsUncapped([level |-> skill.level + 1, xp |-> skill.xp - xpNeeded],
                              xpNeeded)
        ELSE skill

RECURSIVE LevelUps(_, _)
\* addSkillXP's while loop; xpNeeded is computed once, before the loop
LevelUps(skill, xpNeeded) ==
    IF skill.xp >= xpNeeded /\ skill.level < SkillMaxLevel
        THEN LevelUps([level |-> skill.level + 1, xp |-> skill.xp - xpNeeded], xpNeeded)
        ELSE skill

addSkillXP(skills, skillId, amount) ==
    IF skills[skillId].level >= SkillMaxLevel THEN skills
    ELSE [skills EXCEPT ![skillId] =
             LevelUps([@ EXCEPT !.xp = @ + amount], getXPForLevel(skills[skillId].level))]

XP_REWARDS ==
    [gather_coconut |-> [skill |-> "gathering", xp |-> 5],
     gather_wood |-> [skill |-> "gathering", xp |-> 8],
     gather_stone |-> [skill |-> "gathering", xp |-> 10],
     craft_tool |-> [skill |-> "crafting", xp |-> 20]]

\* awardXP(skills, actionId, []): no nearby agents, apprenticeship bonus 1
awardXP(skills, actionId) ==
    IF actionId \notin DOMAIN XP_REWARDS THEN skills
    ELSE addSkillXP(skills, XP_REWARDS[actionId].skill, XP_REWARDS[actionId].xp)

\* getGatheringSpeed(skills, baseTime): baseTime / (1 + level / 100), in ms
getGatheringSpeed(skills, baseTime) ==
    (baseTime * 100) \div (100 + skills.gathering.level)

\* getGatheringYield(skills, baseYield): floor(baseYield * (1 + level/100 * 0.5))
getGatheringYield(skills, baseYield) ==
    (baseYield * (200 + skills.gathering.level)) \div 200

\* RESOURCES[id].gatherTime || 1.0, in ms
GatherTime(resourceId) ==
    CASE resourceId = "wood" -> 2000
      [] resourceId = "stone" -> 2500
      [] OTHER -> 1000

NoTask ==
    [type |-> "null", target |-> "none", resourceId |-> "none",
     targetAgent |-> -1, recipeId |-> "none"]

Task(type) == [NoTask EXCEPT !.type = type]

\* createTribeMember(index), placed by createTribeMembers at cell pos
createTribeMember(needs, pos) ==
    [needs |-> needs, skills |-> createAgentSkills,
     inventory |-> createInventory(InventorySlots),
     alive |-> TRUE, state |-> "idle", task |-> NoTask,
     restTime |-> 0, actionTimer |-> 0, pos |-> pos, gait |-> 0]

(***************************************************************************)
(* systems/ai.js: TribeCoordinator                                          *)
(***************************************************************************)
AliveIds(w) == {a \in DOMAIN w.tribeMembers : w.tribeMembers[a].alive}

\* tribeMembers.length: dead members stay in the array
TribeLength(w) == Cardinality(DOMAIN w.tribeMembers)

\* TribeCoordinator.analyzeTribe(tribeMembers, hut)
analyzeTribe(w) ==
    LET tm == w.tribeMembers
        kept == {r \in DOMAIN w.claimedResources :
                    /\ w.claimedResources[r] \in DOMAIN tm
                    /\ tm[w.claimedResources[r]].task.target # "none"}
    IN  [w EXCEPT
            !.claimedResources = [r \in kept |-> w.claimedResources[r]],
            !.criticalNeeds =
                [a \in AliveIds(w) |->
                    [hunger |-> tm[a].needs.hunger, energy |-> tm[a].needs.energy,
                     health |-> tm[a].needs.health,
                     needsHelp |-> tm[a].needs.hunger < 200000
                                   \/ tm[a].needs.energy < 150000,
                     position |-> tm[a].pos]]]

\* an urgency max(0, 1 - current / desired) as the exact fraction num / den
Urgency(current, desired) ==
    [num |-> Max(0, desired - current), den |-> desired]

\* urgency > p / q and urgency < p / q
Above(u, p, q) == u.num * q > p * u.den
Below(u, p, q) == u.num * q < p * u.den

\* TribeCoordinator.calculateResourcePriorities(tribeMembers, hut)
calculateResourcePriorities(w) ==
    LET tribeSize == Cardinality(AliveIds(w))
        storage == w.hut.storage
    IN  [coconuts |-> Urgency(storage.coconut, tribeSize * 5),
         wood |-> Urgency(storage.wood, tribeSize * 3),
         stone |-> Urgency(storage.stone, tribeSize * 2),
         spears |-> Urgency(storage.fishing_spear, Max(2, tribeSize \div 3))]

\* TribeCoordinator.getAgentsNeedingHelp()
getAgentsNeedingHelp(w) ==
    {a \in DOMAIN w.criticalNeeds : w.criticalNeeds[a].needsHelp}

\* countAgentsOnTask that finds nobody on the task
countAgentsOnTaskNobody(w, taskType) == 0

\* TribeCoordinator.countAgentsOnTask(tribeMembers, taskType)
countAgentsOnTask(w, taskType) ==
    Cardinality({a \in AliveIds(w) : w.tribeMembers[a].task.type = taskType})

\* isResourceClaimed that never reports a claim
isResourceClaimedNever(w, resourceId, agentId) == FALSE

\* TribeCoordinator.isResourceClaimed(resourceTarget, agentId)
isResourceClaimed(w, resourceId, agentId) ==
    /\ resourceId \in DOMAIN w.claimedResources
    /\ w.claimedResources[resourceId] # agentId

\* claimResource that records nothing
claimResourceDropped(w, resourceId, agentId) == w

\* TribeCoordinator.claimResource(resourceTarget, agentId)
claimResource(w, resourceId, agentId) ==
    [w EXCEPT !.claimedResources = Put(w.claimedResources, resourceId, agentId)]

\* TribeCoordinator.releaseResource(resourceTarget, agentId)
releaseResource(w, resourceId, agentId) ==
    IF resourceId \in DOMAIN w.claimedResources /\ w.claimedResources[resourceId] = agentId
        THEN [w EXCEPT !.claimedResources = Drop(w.claimedResources, resourceId)]
        ELSE w

(***************************************************************************)
(* resources.js: the find helpers handed to the planner                    *)
(***************************************************************************)
TreeIds(w) == {w.allTrees[i].id : i \in 1..Len(w.allTrees)}
TreeAt(w, id) == CHOOSE i \in 1..Len(w.allTrees) : w.allTrees[i].id = id
RockAt(w, id) == CHOOSE i \in 1..Len(w.allRocks) : w.allRocks[i].id = id
RockIds(w) == {w.allRocks[i].id : i \in 1..Len(w.allRocks)}

\* position of a tree or rock
ResourcePos(w, id) ==
    IF id \in TreeIds(w) THEN w.allTrees[TreeAt(w, id)].pos
    ELSE w.allRocks[RockAt(w, id)].pos

\* the first of the candidates (indices into list) nearest to cell pos: the
\* forEach keeps the earlier one on a tie (dist < nearestDist)
Nearest(list, candidates, pos) ==
    IF candidates = {} THEN "none"
    ELSE list[CHOOSE i \in candidates :
                 \A j \in candidates :
                     \/ Dist(list[i].pos, pos) < Dist(list[j].pos, pos)
                     \/ (Dist(list[i].pos, pos) = Dist(list[j].pos, pos) /\ i <= j)].id

\* a resource at cell pos is within minDistanceBetweenWorkers (5) of a resource
\* of `known` claimed by another agent
TooClose(w, pos, agentId, known) ==
    \E r \in DOMAIN w.claimedResources :
        /\ w.claimedResources[r] # agentId
        /\ r \in known
        /\ Dist(pos, ResourcePos(w, r)) < 5

\* findNearestPalmWithCoconuts(member, coordinator)
findNearestPalmWithCoconuts(w, agentId) ==
    Nearest(w.allTrees,
            {i \in 1..Len(w.allTrees) :
                /\ w.allTrees[i].treeType = "palm"
                /\ w.allTrees[i].coconuts > 0
                /\ ~isResourceClaimed(w, w.allTrees[i].id, agentId)
                /\ ~TooClose(w, w.allTrees[i].pos, agentId, TreeIds(w))},
            w.tribeMembers[agentId].pos)

\* findNearestJungleTree(member, coordinator): every entry of allTrees, palms too
findNearestJungleTree(w, agentId) ==
    Nearest(w.allTrees,
            {i \in 1..Len(w.allTrees) :
                ~isResourceClaimed(w, w.allTrees[i].id, agentId)},
            w.tribeMembers[agentId].pos)

\* findNearestRock(member, coordinator)
findNearestRock(w, agentId) ==
    Nearest(w.allRocks,
            {i \in 1..Len(w.allRocks) :
                /\ ~isResourceClaimed(w, w.allRocks[i].id, agentId)
                /\ ~TooClose(w, w.allRocks[i].pos, agentId, TreeIds(w) \cup RockIds(w))},
            w.tribeMembers[agentId].pos)

\* FishingSystem.findNearestFish(agent, fishList, fishingSystem): the nearest
\* fish within 30 units; no caller ever claims a fish
findNearestFish(w, agentId) ==
    Nearest(w.fishList,
            {i \in 1..Len(w.fishList) :
                Dist(w.fishList[i].pos, w.tribeMembers[agentId].pos) < 30},
            w.tribeMembers[agentId].pos)

\* FishingSystem.hasSpear(inventory): inventory.equipped is a field no
\* inventory has (createInventory sets equippedTool), so the result is false
hasSpear(inv) == FALSE

\* hasFood(inventory)
hasFood(inv) ==
    getInventoryCount(inv, "coconut") > 0 \/ getInventoryCount(inv, "fish") > 0

\* hut.storage as createHut leaves it, with the given stock
HutStorage(coconut, wood, stone, spears) ==
    [coconut |-> coconut, wood |-> wood, stone |-> stone, vine |-> 0, fish |-> 0,
     fishing_spear |-> spears]

\* hutAsInventory()
hutAsInventory(w) ==
    [slots |-> [r \in DOMAIN w.hut.storage |->
                   [count |-> w.hut.storage[r], items |-> <<>>, hasItems |-> TRUE]],
     maxSlots |-> 16, tools |-> NoSlots, equippedTool |-> "null"]

\* canCraftSpear(hut)
canCraftSpear(w) == canCraft(hutAsInventory(w), "fishing_spear")

(***************************************************************************)
(* systems/ai.js: improvedPlanTask                                          *)
(***************************************************************************)
ResourceTypes == <<"coconuts", "wood", "stone">>

\* the findFunc of a resource task
FindFunc(w, agentId, type) ==
    CASE type = "coconuts" -> findNearestPalmWithCoconuts(w, agentId)
      [] type = "wood" -> findNearestJungleTree(w, agentId)
      [] OTHER -> findNearestRock(w, agentId)

\* resourceTasks.sort((a, b) => b.urgency - a.urgency): by urgency, highest
\* first, equal urgencies in the order coconuts, wood, stone
Before(priorities, i, j) ==
    LET ui == priorities[ResourceTypes[i]]
        uj == priorities[ResourceTypes[j]]
    IN  \/ ui.num * uj.den > uj.num * ui.den
        \/ (ui.num * uj.den = uj.num * ui.den /\ i < j)

SortedTasks(priorities) ==
    [k \in 1..3 |->
        ResourceTypes[CHOOSE i \in 1..3 :
            Cardinality({j \in 1..3 : Before(priorities, j, i)}) = k - 1]]

\* Math.ceil(alive * urgency * 0.6)
OptimalWorkers(w, u) ==
    (Cardinality(AliveIds(w)) * u.num * 3 + u.den * 5 - 1) \div (u.den * 5)

\* the resource task the gathering loop commits to, or "none"
GatherChoice(w, agentId) ==
    LET priorities == calculateResourcePriorities(w)
        order == SortedTasks(priorities)
        fits(k) == /\ Above(priorities[order[k]], 3, 10)
                   /\ FindFunc(w, agentId, order[k]) # "none"
                   /\ countAgentsOnTask(w, "gather_" \o order[k])
                          < OptimalWorkers(w, priorities[order[k]])
    IN  IF \E k \in 1..3 : fits(k)
            THEN order[CHOOSE k \in 1..3 : fits(k) /\ \A j \in 1..(k - 1) : ~fits(j)]
            ELSE "none"

\* the agent needing help that is nearest to the member (first on a tie)
NearestNeedy(w, agentId) ==
    LET needy == getAgentsNeedingHelp(w)
        d(a) == Dist(w.tribeMembers[agentId].pos, w.criticalNeeds[a].position)
    IN  CHOOSE a \in needy : \A b \in needy : d(a) < d(b) \/ (d(a) = d(b) /\ a <= b)

IsAtomic(member) ==
    member.state \in {"gathering", "crafting", "eating", "fishing"}

\* a cascade that tests the deposit rule before the survival rules
PlanRuleDepositFirst(w, agentId) ==
    LET member == w.tribeMembers[agentId]
    IN  IF ~member.alive \/ IsAtomic(member) THEN "none"
        ELSE IF SlotCount(member.inventory) > 0 THEN "haul_to_hut"
        ELSE IF member.needs.hunger < 300000 /\ w.hut.storage.coconut > 0
            THEN "go_hut_for_food"
        ELSE IF member.needs.energy < 200000 THEN "recover_energy"
        ELSE "rest"

\* the cascade of improvedPlanTask after its two early returns: the rule that
\* commits
RuleCascade(w, agentId) ==
    LET member == w.tribeMembers[agentId]
        hunger == member.needs.hunger
        energy == member.needs.energy
        storage == w.hut.storage
        priorities == calculateResourcePriorities(w)
        canHelp == hasFood(member.inventory) \/ storage.coconut > TribeLength(w)
    IN
        IF hunger < 250000 /\ hasFood(member.inventory) THEN "eat_from_inventory"
        ELSE IF hunger < 300000 /\ storage.coconut > 0 THEN "go_hut_for_food"
        ELSE IF energy < 200000 THEN "recover_energy"
        ELSE IF /\ getAgentsNeedingHelp(w) # {}
                /\ hunger > 500000 /\ energy > 400000
                /\ canHelp
                /\ Dist(member.pos, w.criticalNeeds[NearestNeedy(w, agentId)].position) < 50
            THEN (IF hasFood(member.inventory) THEN "help_agent" ELSE "go_hut_for_helping")
        ELSE IF SlotCount(member.inventory) > 0 THEN "haul_to_hut"
        ELSE IF hunger < 500000 /\ Below(priorities.coconuts, 1, 2) /\ storage.coconut > 0
            THEN "go_hut_for_food_medium"
        ELSE IF /\ Above(priorities.spears, 1, 2)
                /\ canCraftSpear(w)
                /\ countAgentsOnTask(w, "craft_spear") = 0
                /\ countAgentsOnTask(w, "walk_to_hut_to_craft") = 0
            THEN (IF Dist(member.pos, HutPos) > 3
                     THEN "walk_to_hut_to_craft" ELSE "craft_spear")
        ELSE IF /\ ~hasSpear(member.inventory)
                /\ storage.fishing_spear > 0
                /\ energy > 300000
                /\ Above(priorities.coconuts, 3, 10)
                /\ countAgentsOnTask(w, "get_spear_from_hut") = 0
            THEN "get_spear_from_hut"
        ELSE IF /\ hasSpear(member.inventory)
                /\ energy > 400000 /\ hunger > 300000
                /\ Above(priorities.coconuts, 4, 10)
                /\ countAgentsOnTask(w, "go_fishing")
                       < Max(1, (Cardinality(AliveIds(w)) * 3) \div 10)
                /\ findNearestFish(w, agentId) # "none"
            THEN "go_fishing"
        ELSE IF GatherChoice(w, agentId) # "none" THEN "gather"
        ELSE IF FindFunc(w, agentId, SortedTasks(priorities)[1]) # "none" THEN "maintenance"
        ELSE IF Dist(member.pos, HutPos) > 10 THEN "patrol_to_hut"
        ELSE "rest"

\* a planner without the early return for the atomic states
PlanRuleReplansAtomic(w, agentId) ==
    IF ~w.tribeMembers[agentId].alive THEN "none" ELSE RuleCascade(w, agentId)

\* the rule of improvedPlanTask that decides the member's plan, "none" for a
\* member that is dead or in an atomic state
PlanRule(w, agentId) ==
    IF ~w.tribeMembers[agentId].alive \/ IsAtomic(w.tribeMembers[agentId]) THEN "none"
    ELSE RuleCascade(w, agentId)

\* the rules of improvedPlanTask in the order of the code, 1 to NumRules
NumRules == 13

\* the condition of rule k alone, as its if statement tests it
RuleMatches(w, agentId, k) ==
    LET member == w.tribeMembers[agentId]
        hunger == member.needs.hunger
        energy == member.needs.energy
        storage == w.hut.storage
        priorities == calculateResourcePriorities(w)
    IN  CASE k = 1 -> hunger < 250000 /\ hasFood(member.inventory)
          [] k = 2 -> hunger < 300000 /\ storage.coconut > 0
          [] k = 3 -> energy < 200000
          [] k = 4 -> /\ getAgentsNeedingHelp(w) # {}
                      /\ hunger > 500000 /\ energy > 400000
                      /\ (hasFood(member.inventory) \/ storage.coconut > TribeLength(w))
                      /\ Dist(member.pos,
                              w.criticalNeeds[NearestNeedy(w, agentId)].position) < 50
          [] k = 5 -> SlotCount(member.inventory) > 0
          [] k = 6 -> /\ hunger < 500000
                      /\ Below(priorities.coconuts, 1, 2)
                      /\ storage.coconut > 0
          [] k = 7 -> /\ Above(priorities.spears, 1, 2)
                      /\ canCraftSpear(w)
                      /\ countAgentsOnTask(w, "craft_spear") = 0
                      /\ countAgentsOnTask(w, "walk_to_hut_to_craft") = 0
          [] k = 8 -> /\ ~hasSpear(member.inventory)
                      /\ storage.fishing_spear > 0
                      /\ energy > 300000
                      /\ Above(priorities.coconuts, 3, 10)
                      /\ countAgentsOnTask(w, "get_spear_from_hut") = 0
          [] k = 9 -> /\ hasSpear(member.inventory)
                      /\ energy > 400000 /\ hunger > 300000
                      /\ Above(priorities.coconuts, 4, 10)
                      /\ countAgentsOnTask(w, "go_fishing")
                             < Max(1, (Cardinality(AliveIds(w)) * 3) \div 10)
                      /\ findNearestFish(w, agentId) # "none"
          [] k = 10 -> GatherChoice(w, agentId) # "none"
          [] k = 11 -> FindFunc(w, agentId, SortedTasks(priorities)[1]) # "none"
          [] k = 12 -> Dist(member.pos, HutPos) > 10
          [] OTHER -> TRUE

\* the state and task that rule k leaves the member with
RuleOutcome(member, k) ==
    CASE k = 1 -> member.state = "eating" /\ member.task.type = "eat_from_inventory"
      [] k \in {2, 6} -> member.state = "walking" /\ member.task.type = "go_hut_for_food"
      [] k = 3 -> /\ member.state = "resting" /\ member.task.type = "recover_energy"
                  /\ member.restTime >= 4 * TimeScale
      [] k = 4 -> /\ member.state = "walking"
                  /\ member.task.type \in {"help_agent", "go_hut_for_helping"}
      [] k = 5 -> member.state = "hauling" /\ member.task.type = "haul_to_hut"
      [] k = 7 -> \/ member.state = "walking" /\ member.task.type = "walk_to_hut_to_craft"
                  \/ member.state = "crafting" /\ member.task.type = "craft_spear"
      [] k = 8 -> member.state = "walking" /\ member.task.type = "get_spear_from_hut"
      [] k = 9 -> member.state = "walking" /\ member.task.type = "go_fishing"
      [] k \in {10, 11} ->
            /\ member.state = "walking"
            /\ member.task.type \in {"gather_coconuts", "gather_wood", "gather_stone"}
      [] k = 12 -> member.state = "walking" /\ member.task.type = "patrol_to_hut"
      [] OTHER -> /\ member.state = "resting" /\ member.task.type = "recover_energy"
                  /\ member.restTime < 4 * TimeScale

\* a gather task on target for the resource type
GatherTask(type, target) ==
    [NoTask EXCEPT !.type = "gather_" \o type, !.target = target,
                   !.resourceId = IF type = "coconuts" THEN "coconut" ELSE type]

\* member.restTime = base + seededRandom() * span, with the advanced seed
RestFor(w, agentId, base, span, taskType) ==
    LET drawn == seededRandom(w.seed)
    IN  [w EXCEPT !.seed = drawn,
                  !.tribeMembers[agentId].state = "resting",
                  !.tribeMembers[agentId].task = Task(taskType),
                  !.tribeMembers[agentId].restTime = base * TimeScale + span * drawn]

SetPlan(w, agentId, state, task) ==
    [w EXCEPT !.tribeMembers[agentId].state = state,
              !.tribeMembers[agentId].task = task]

\* improvedPlanTask(member, tribeMembers, hut, coordinator, findHelpers)
improvedPlanTask(w, agentId) ==
    LET rule == PlanRule(w, agentId)
        first == SortedTasks(calculateResourcePriorities(w))[1]
        choice == IF rule = "gather" THEN GatherChoice(w, agentId) ELSE first
        target == FindFunc(w, agentId, choice)
    IN  CASE rule = "none" -> w
          [] rule = "eat_from_inventory" ->
                SetPlan(w, agentId, "eating",
                        [Task("eat_from_inventory") EXCEPT !.resourceId = "coconut"])
          [] rule \in {"go_hut_for_food", "go_hut_for_food_medium"} ->
                SetPlan(w, agentId, "walking", Task("go_hut_for_food"))
          [] rule = "recover_energy" -> RestFor(w, agentId, 4, 4, "recover_energy")
          [] rule = "help_agent" ->
                SetPlan(w, agentId, "walking",
                        [Task("help_agent") EXCEPT !.targetAgent = NearestNeedy(w, agentId)])
          [] rule = "go_hut_for_helping" ->
                SetPlan(w, agentId, "walking", Task("go_hut_for_helping"))
          [] rule = "haul_to_hut" -> SetPlan(w, agentId, "hauling", Task("haul_to_hut"))
          [] rule = "walk_to_hut_to_craft" ->
                SetPlan(w, agentId, "walking",
                        [Task("walk_to_hut_to_craft") EXCEPT !.recipeId = "fishing_spear"])
          [] rule = "craft_spear" ->
                [SetPlan(w, agentId, "crafting",
                         [Task("craft_spear") EXCEPT !.recipeId = "fishing_spear"])
                    EXCEPT !.tribeMembers[agentId].actionTimer = 5000]
          [] rule = "get_spear_from_hut" ->
                SetPlan(w, agentId, "walking", Task("get_spear_from_hut"))
          [] rule = "go_fishing" ->
                SetPlan(w, agentId, "walking",
                        [Task("go_fishing") EXCEPT !.target = findNearestFish(w, agentId)])
          [] rule \in {"gather", "maintenance"} ->
                SetPlan(claimResource(w, target, agentId), agentId, "walking",
                        GatherTask(choice, target))
          [] rule = "patrol_to_hut" ->
                SetPlan(w, agentId, "walking", Task("patrol_to_hut"))
          [] OTHER -> RestFor(w, agentId, 2, 2, "recover_energy")

(***************************************************************************)
(* resources.js: executeAgentState and the handlers it dispatches to       *)
(***************************************************************************)
\* delta * CONFIG.simulationSpeed of one tick, in ms
ActionStep(w) == CONFIG.fixedTimestep * w.simulationSpeed

\* the shore cell a spear is thrown from, CONFIG.islandRadius * 0.88
ShoreCell == 17

Idle(w, agentId) == SetPlan(w, agentId, "idle", NoTask)

\* FishingSystem.isInStrikingRange(agentPosition, fishPosition): dist <= 8
isInStrikingRange(a, b) == Dist(a, b) <= 8

FishAt(w, id) == CHOOSE i \in 1..Len(w.fishList) : w.fishList[i].id = id
FishIds(w) == {w.fishList[i].id : i \in 1..Len(w.fishList)}

\* resolveTaskTargetPosition(member): a cell, or -1 for null
resolveTaskTargetPosition(w, agentId) ==
    LET task == w.tribeMembers[agentId].task
    IN  IF task.type \in {"haul_to_hut", "go_hut_for_food", "patrol_to_hut",
                          "go_hut_for_helping", "get_spear_from_hut"}
            THEN HutPos
        ELSE IF task.type \in {"gather_coconuts", "gather_wood", "gather_stone"}
                /\ task.target # "none"
            THEN ResourcePos(w, task.target)
        ELSE IF task.type = "go_fishing" /\ task.target # "none" THEN ShoreCell
        ELSE IF /\ task.type = "help_agent"
                /\ task.targetAgent \in AliveIds(w)
            THEN w.tribeMembers[task.targetAgent].pos
        ELSE -1

RECURSIVE DepositAll(_, _, _)
\* the haul_to_hut branch of onDestinationReached: every slot is removed from
\* the inventory and added to hut.storage
DepositAll(inv, storage, ids) ==
    IF ids = {} THEN [inv |-> inv, storage |-> storage]
    ELSE LET r == CHOOSE x \in ids : TRUE
             amount == inv.slots[r].count
             held == IF r \in DOMAIN storage THEN storage[r] ELSE 0
         IN  DepositAll(removeFromInventory(inv, r, amount).inv,
                        Put(storage, r, held + amount), ids \ {r})

\* inventory.tools.get('fishing_spear'): toolData?.count || (toolData ? 1 : 0)
SpearCount(inv) == IF "fishing_spear" \in DOMAIN inv.tools THEN 1 ELSE 0

\* addToInventory on the member's inventory at the wall-clock time of the run
Carry(w, agentId, resourceId, count) ==
    [w EXCEPT !.tribeMembers[agentId].inventory =
        addToInventory(@, resourceId, count, w.clock).inv]

\* onDestinationReached(member)
onDestinationReached(w, agentId) ==
    LET member == w.tribeMembers[agentId]
        task == member.task
        storage == w.hut.storage
        deposit == DepositAll(member.inventory, storage, DOMAIN member.inventory.slots)
        takeFood == Min(2, storage.coconut)
        takeHelp == Min(2, storage.coconut - TribeLength(w))
        armed == equipTool(addTool(member.inventory, "fishing_spear").inv,
                           "fishing_spear").inv
        other == task.targetAgent
        gift == IF getInventoryCount(member.inventory, "fish") > 0 THEN "fish" ELSE "coconut"
    IN  CASE task.type = "null" -> [w EXCEPT !.tribeMembers[agentId].state = "idle"]
          [] task.type = "haul_to_hut" ->
                Idle([w EXCEPT !.tribeMembers[agentId].inventory = deposit.inv,
                               !.hut.storage = deposit.storage], agentId)
          [] task.type = "go_hut_for_food" /\ storage.coconut > 0 ->
                SetPlan(Carry([w EXCEPT !.hut.storage.coconut = @ - takeFood],
                              agentId, "coconut", takeFood),
                        agentId, "eating",
                        [Task("eat_from_inventory") EXCEPT !.resourceId = "coconut"])
          [] task.type \in {"gather_coconuts", "gather_wood", "gather_stone"} ->
                IF Dist(member.pos, ResourcePos(w, task.target)) > 2 THEN w
                ELSE [w EXCEPT !.tribeMembers[agentId].state = "gathering",
                               !.tribeMembers[agentId].actionTimer = 0]
          [] task.type = "go_fishing" /\ task.target # "none" ->
                IF isInStrikingRange(member.pos, w.fishList[FishAt(w, task.target)].pos)
                    THEN [w EXCEPT !.tribeMembers[agentId].state = "fishing",
                                   !.tribeMembers[agentId].actionTimer = 0]
                    ELSE Idle(releaseResource(w, task.target, agentId), agentId)
          [] task.type = "patrol_to_hut" -> Idle(w, agentId)
          [] task.type = "go_hut_for_helping" /\ storage.coconut > TribeLength(w) ->
                Idle(IF takeHelp > 0
                        THEN Carry([w EXCEPT !.hut.storage.coconut = @ - takeHelp],
                                   agentId, "coconut", takeHelp)
                        ELSE w, agentId)
          [] task.type = "walk_to_hut_to_craft" ->
                IF canCraft(hutAsInventory(w), task.recipeId)
                    THEN [SetPlan(w, agentId, "crafting",
                                  [Task("craft_spear") EXCEPT !.recipeId = task.recipeId])
                             EXCEPT !.tribeMembers[agentId].actionTimer = 5000]
                    ELSE Idle(w, agentId)
          [] task.type = "get_spear_from_hut" ->
                Idle(IF storage.fishing_spear > 0 /\ SpearCount(member.inventory) < 2
                        THEN [w EXCEPT !.tribeMembers[agentId].inventory = armed,
                                       !.hut.storage.fishing_spear = @ - 1]
                        ELSE w, agentId)
          [] task.type = "help_agent" ->
                Idle(IF /\ other \in AliveIds(w)
                        /\ hasFood(member.inventory)
                        /\ w.tribeMembers[other].needs.hunger < 500000
                        THEN [w EXCEPT
                                 !.tribeMembers[agentId].inventory =
                                     removeFromInventory(@, gift, 1).inv,
                                 !.tribeMembers[other].inventory =
                                     addToInventory(@, gift, 1, w.clock).inv]
                        ELSE w, agentId)
          [] OTHER -> Idle(w, agentId)

\* one tick of walking towards cell `to` at the speed of world w: the agent
\* covers walkSpeed * simulationSpeed * delta units, kept in tenths of a unit
\* in gait until they make up a cell
Walk(w, agentId, to) ==
    LET member == w.tribeMembers[agentId]
        covered == member.gait
                       + (CONFIG.walkSpeed * w.simulationSpeed * CONFIG.fixedTimestep) \div 100
    IN  [w EXCEPT !.tribeMembers[agentId].gait = covered % (10 * CellSize),
                  !.tribeMembers[agentId].pos =
                      IF covered >= 10 * CellSize THEN StepTowards(@, to) ELSE @]

\* updateWalking(member, delta): at simulationSpeed 50 one cell per tick,
\* walkSpeed * simulationSpeed * delta = 5 units
updateWalking(w, agentId) ==
    LET targetPos == resolveTaskTargetPosition(w, agentId)
        pos == w.tribeMembers[agentId].pos
    IN  IF targetPos = -1 THEN Idle(w, agentId)
        ELSE IF Dist(pos, targetPos) < 2 THEN onDestinationReached(w, agentId)
        ELSE Walk(w, agentId, targetPos)

\* updateGathering(member, delta, tribeCoordinator)
updateGathering(w, agentId) ==
    LET member == w.tribeMembers[agentId]
        task == member.task
        effectiveTime == getGatheringSpeed(member.skills, GatherTime(task.resourceId))
        timer == (IF member.actionTimer <= 0 THEN effectiveTime ELSE member.actionTimer)
                     - ActionStep(w)
        amount == Max(1, getGatheringYield(member.skills,
                                           IF task.resourceId = "coconut" THEN 3 ELSE 2))
        actionId == IF task.resourceId = "coconut" THEN "gather_coconut"
                    ELSE IF task.resourceId = "wood" THEN "gather_wood"
                    ELSE "gather_stone"
        gathered == [Carry(w, agentId, task.resourceId, amount)
                        EXCEPT !.tribeMembers[agentId].skills = awardXP(@, actionId)]
    IN  IF task.type = "null" \/ task.target = "none" THEN Idle(w, agentId)
        ELSE IF Dist(member.pos, ResourcePos(w, task.target)) > 2
            THEN Walk(w, agentId, ResourcePos(w, task.target))
        ELSE IF timer > 0 THEN [w EXCEPT !.tribeMembers[agentId].actionTimer = timer]
        ELSE IF ~hasInventoryRoom(member.inventory, task.resourceId)
            THEN [SetPlan(w, agentId, "hauling", Task("haul_to_hut"))
                     EXCEPT !.tribeMembers[agentId].actionTimer = timer]
        \* task.targetTree is a field no task has: the palm keeps its coconuts
        ELSE [SetPlan(releaseResource(gathered, task.target, agentId),
                      agentId, "hauling", Task("haul_to_hut"))
                 EXCEPT !.tribeMembers[agentId].actionTimer = 0]

\* FishingSystem.attemptCatch's successRate, in millionths
successRateUnskilled(level, energy, attempts) ==
    Min((IF energy < 300000 THEN 100000 ELSE 250000) + Min(attempts * 10000, 50000),
        950000)

successRate(level, energy, attempts) ==
    LET base == 250000 + level * 7000
        tired == IF energy < 300000 THEN (base * 4) \div 10 ELSE base
    IN  Min(tired + Min(attempts * 10000, 50000), 950000)

CatchRate(w, agentId) ==
    successRate(w.tribeMembers[agentId].skills.fishing.level,
                w.tribeMembers[agentId].needs.energy, w.fishingAttempts[agentId])

\* updateFishing(member, delta); the agent never stands below the water level
updateFishing(w, agentId) ==
    LET member == w.tribeMembers[agentId]
        task == member.task
        timer == (IF member.actionTimer <= 0 THEN 4000 ELSE member.actionTimer)
                     - ActionStep(w)
        roll == seededRandom(w.seed)
        success == roll * 3125 < CatchRate(w, agentId) * 729
        tried == [w EXCEPT !.seed = roll, !.fishingAttempts[agentId] = @ + 1]
        used == useTool(member.inventory, "fishing_spear")
        caught == [tried EXCEPT
                      !.fishingAttempts[agentId] = 0,
                      !.tribeMembers[agentId].inventory = addFishToInventory(used.inv).inv,
                      !.tribeMembers[agentId].skills = awardXP(@, "fishing"),
                      !.tribeMembers[agentId].needs = fishingEnergyDeduction(@),
                      !.fishList = SelectSeq(@, LAMBDA f : f.id # task.target)]
    IN  IF task.type # "go_fishing" \/ task.target \notin FishIds(w) THEN Idle(w, agentId)
        ELSE IF ~isInStrikingRange(member.pos, w.fishList[FishAt(w, task.target)].pos)
            THEN Idle(w, agentId)
        ELSE IF timer > 0 THEN [w EXCEPT !.tribeMembers[agentId].actionTimer = timer]
        ELSE IF ~success THEN [tried EXCEPT !.tribeMembers[agentId].actionTimer = 4000]
        ELSE IF used.ret = "false"
            THEN Idle([tried EXCEPT !.fishingAttempts[agentId] = 0,
                                    !.tribeMembers[agentId].inventory = used.inv,
                                    !.tribeMembers[agentId].actionTimer = timer], agentId)
        ELSE [SetPlan(caught, agentId, "hauling", Task("haul_to_hut"))
                 EXCEPT !.tribeMembers[agentId].actionTimer = 0]

\* updateCrafting(member, delta): consumeCraftingResources works on a copy of the
\* hut storage, so the hut keeps its wood and stone
updateCrafting(w, agentId) ==
    LET member == w.tribeMembers[agentId]
        task == member.task
        timer == member.actionTimer - ActionStep(w)
        armed == equipTool(addTool(member.inventory, "fishing_spear").inv,
                           "fishing_spear").inv
        crafted == [w EXCEPT
                       !.tribeMembers[agentId].actionTimer = timer,
                       !.tribeMembers[agentId].inventory =
                           IF SpearCount(member.inventory) < 2 THEN armed ELSE @,
                       !.tribeMembers[agentId].skills = awardXP(@, "craft_tool"),
                       !.hut.storage.fishing_spear = @ + 1]
    IN  IF task.type # "craft_spear" THEN Idle(w, agentId)
        ELSE IF Dist(member.pos, HutPos) > 3
            THEN SetPlan(w, agentId, "walking",
                         [Task("walk_to_hut_to_craft") EXCEPT !.recipeId = task.recipeId])
        ELSE IF timer > 0 THEN [w EXCEPT !.tribeMembers[agentId].actionTimer = timer]
        ELSE IF ~canCraft(hutAsInventory(w), task.recipeId)
            THEN Idle([w EXCEPT !.tribeMembers[agentId].actionTimer = timer], agentId)
        ELSE Idle(crafted, agentId)

\* handleEating(member): one item, a second while hunger < 0.6; the raw and
\* spoiled flags are constants false, so consumeFood draws nothing
handleEating(w, agentId) ==
    LET member == w.tribeMembers[agentId]
        resourceId == IF member.task.resourceId = "none" THEN "coconut"
                      ELSE member.task.resourceId
        nutrition == IF resourceId \in DOMAIN RESOURCES /\ RESOURCES[resourceId].nutrition # 0
                        THEN RESOURCES[resourceId].nutrition
                        ELSE CONFIG.coconutNutrition
        removed == removeFromInventory(member.inventory, resourceId, 1)
        once == consumeFood(member.needs, nutrition, FALSE, FALSE, 0)
        again == once.hunger < 600000 /\ getInventoryCount(removed.inv, resourceId) > 0
        inv == IF again THEN removeFromInventory(removed.inv, resourceId, 1).inv
               ELSE removed.inv
        eaten == [w EXCEPT
                     !.tribeMembers[agentId].inventory = inv,
                     !.tribeMembers[agentId].needs =
                         IF again THEN consumeFood(once, nutrition, FALSE, FALSE, 0)
                         ELSE once]
    IN  IF removed.ret = "null" THEN w
        ELSE IF getInventoryCount(inv, resourceId) > 0
            THEN SetPlan(eaten, agentId, "hauling", Task("haul_to_hut"))
        ELSE eaten

\* executeAgentState(member, delta)
executeAgentState(w, agentId) ==
    LET member == w.tribeMembers[agentId]
        rested == member.restTime - DeltaRest
        timer == (IF member.actionTimer = 0 THEN 2000 ELSE member.actionTimer)
                     - ActionStep(w)
    IN  CASE member.state = "resting" ->
                IF rested <= 0
                    THEN Idle([w EXCEPT !.tribeMembers[agentId].restTime = rested], agentId)
                    ELSE [w EXCEPT !.tribeMembers[agentId].restTime = rested]
          [] member.state = "eating" ->
                IF timer <= 0
                    THEN Idle(handleEating(
                             [w EXCEPT !.tribeMembers[agentId].actionTimer = timer],
                             agentId), agentId)
                    ELSE [w EXCEPT !.tribeMembers[agentId].actionTimer = timer]
          [] member.state \in {"walking", "hauling"} -> updateWalking(w, agentId)
          [] member.state = "fishing" -> updateFishing(w, agentId)
          [] member.state = "gathering" -> updateGathering(w, agentId)
          [] member.state = "crafting" -> updateCrafting(w, agentId)
          [] OTHER -> w

\* the ctx object updateTribeMembers hands to updateNeeds
MemberContext(w, agentId) ==
    LET member == w.tribeMembers[agentId]
        others == AliveIds(w) \ {agentId}
    IN  [isMoving |-> member.state \in {"walking", "hauling", "fishing"},
         isResting |-> member.state \in {"resting", "crafting"},
         inShelter |-> Dist(member.pos, HutPos) < HutRadius,
         inWater |-> FALSE, inDeepWater |-> FALSE,
         nearbyAgentCount |->
             Cardinality({o \in others : Dist(w.tribeMembers[o].pos, member.pos) < 10}),
         nearSickAgent |->
             \E o \in others : /\ w.tribeMembers[o].needs.isSick
                               /\ Dist(w.tribeMembers[o].pos, member.pos) < 6]

\* the needs update of a member that leaves member.alive as it is
MemberNeedsNoDeath(w, agentId, rolls) ==
    [w EXCEPT !.tribeMembers[agentId].needs =
        updateNeeds(@, CONFIG.fixedTimestep, MemberContext(w, agentId), rolls).needs]

\* updateTribeMembers, the needs update of one member: a death ends the
\* member's turn, a forced_rest event puts it to rest
MemberNeeds(w, agentId, rolls) ==
    LET member == w.tribeMembers[agentId]
        needsResult == updateNeeds(member.needs, CONFIG.fixedTimestep,
                                   MemberContext(w, agentId), rolls)
        updated == [w EXCEPT !.tribeMembers[agentId].needs = needsResult.needs]
        drawn == seededRandom(w.seed)
    IN  IF ~needsResult.alive
            THEN [updated EXCEPT !.tribeMembers[agentId].alive = FALSE,
                                 !.totalDeaths = @ + 1]
        ELSE IF Pushed(needsResult.events, "forced_rest")
            THEN [updated EXCEPT !.seed = drawn,
                                 !.tribeMembers[agentId].state = "resting",
                                 !.tribeMembers[agentId].task = NoTask,
                                 !.tribeMembers[agentId].restTime = 3 * TimeScale + 3 * drawn]
        ELSE updated

RECURSIVE RegrowFrom(_, _)
\* regenerateCoconuts(delta), from tree i on: seededRandom() < 0.002 * delta is
\* a draw below 24 of 233280; a new coconut takes two more draws
RegrowFrom(w, i) ==
    LET tree == w.allTrees[i]
        roll == seededRandom(w.seed)
        placed == seededRandom(seededRandom(roll))
    IN  IF i > Len(w.allTrees) THEN w
        ELSE IF tree.treeType # "palm" \/ tree.coconuts >= 3 THEN RegrowFrom(w, i + 1)
        ELSE IF roll * 1250 < TimeScale \div 8
            THEN RegrowFrom([w EXCEPT !.seed = placed, !.allTrees[i].coconuts = @ + 1], i + 1)
        ELSE RegrowFrom([w EXCEPT !.seed = roll], i + 1)

regenerateCoconuts(w) == RegrowFrom(w, 1)

(***************************************************************************)
(* systems/ai.js: the social system.  A social object is a record; the     *)
(* relationships Map is a function from the ids it holds to their score.   *)
(***************************************************************************)
RELATIONSHIP_BOUNDS ==
    [MIN |-> -100, MAX |-> 100, NEUTRAL |-> 0, FRIEND_THRESHOLD |-> 30,
     ENEMY_THRESHOLD |-> -30, FAMILY_BASE |-> 50]

SOCIAL_ACTIONS ==
    {"help", "trade", "betray", "fight", "team_up", "mate", "share_food", "protect"}

\* the entries of RELATIONSHIP_CHANGES the social system reads
RELATIONSHIP_CHANGES ==
    [share_food |-> [giver |-> 0, receiver |-> 15],
     help_build |-> [helper |-> 5, helped |-> 10],
     protect |-> [protector |-> 5, protected |-> 20],
     successful_mate |-> [both |-> 25],
     trade_fair |-> [both |-> 5],
     trade_unfair |-> [winner |-> 2, loser |-> -10],
     betray_trade |-> [betrayer |-> 0, betrayed |-> -40],
     attack |-> [attacker |-> 0, attacked |-> -25],
     kill_family |-> [killer |-> 0, family |-> -100],
     parent_child |-> [both |-> 50],
     sibling |-> [both |-> 30]]

createAgentSocial(agentId) ==
    [id |-> agentId, relationships |-> NoSlots, familyIds |-> {}, friendIds |-> {},
     enemyIds |-> {}, totalHelpsGiven |-> 0, totalHelpsReceived |-> 0,
     totalBetrayals |-> 0, totalFights |-> 0, isHero |-> FALSE, isLegend |-> FALSE,
     heroKills |-> 0]

\* social.relationships.get(otherAgentId) || NEUTRAL
getRelationship(social, otherAgentId) ==
    IF otherAgentId \in DOMAIN social.relationships
        /\ social.relationships[otherAgentId] # 0
        THEN social.relationships[otherAgentId]
        ELSE RELATIONSHIP_BOUNDS.NEUTRAL

\* setRelationship reads social.friendIds and social.enemyIds in each of its
\* branches: on an object without them the call raises a TypeError
setRelationshipThrows(social) == ~({"friendIds", "enemyIds"} \subseteq DOMAIN social)

\* setRelationship without the removal from the opposite set
setRelationshipOneSided(social, otherAgentId, score) ==
    LET clamped == Max(RELATIONSHIP_BOUNDS.MIN, Min(RELATIONSHIP_BOUNDS.MAX, score))
        stored == [x \in DOMAIN social.relationships \cup {otherAgentId} |->
                      IF x = otherAgentId THEN clamped ELSE social.relationships[x]]
    IN  IF clamped >= RELATIONSHIP_BOUNDS.FRIEND_THRESHOLD
            THEN [social EXCEPT !.relationships = stored,
                                !.friendIds = @ \cup {otherAgentId}]
        ELSE IF clamped <= RELATIONSHIP_BOUNDS.ENEMY_THRESHOLD
            THEN [social EXCEPT !.relationships = stored,
                                !.enemyIds = @ \cup {otherAgentId}]
        ELSE [social EXCEPT !.relationships = stored,
                            !.friendIds = @ \ {otherAgentId},
                            !.enemyIds = @ \ {otherAgentId}]

setRelationship(social, otherAgentId, score) ==
    LET clamped == Max(RELATIONSHIP_BOUNDS.MIN, Min(RELATIONSHIP_BOUNDS.MAX, score))
        stored == [x \in DOMAIN social.relationships \cup {otherAgentId} |->
                      IF x = otherAgentId THEN clamped ELSE social.relationships[x]]
    IN  IF clamped >= RELATIONSHIP_BOUNDS.FRIEND_THRESHOLD
            THEN [social EXCEPT !.relationships = stored,
                                !.friendIds = @ \cup {otherAgentId},
                                !.enemyIds = @ \ {otherAgentId}]
        ELSE IF clamped <= RELATIONSHIP_BOUNDS.ENEMY_THRESHOLD
            THEN [social EXCEPT !.relationships = stored,
                                !.enemyIds = @ \cup {otherAgentId},
                                !.friendIds = @ \ {otherAgentId}]
        ELSE [social EXCEPT !.relationships = stored,
                            !.friendIds = @ \ {otherAgentId},
                            !.enemyIds = @ \ {otherAgentId}]

modifyRelationship(social, otherAgentId, delta) ==
    setRelationship(social, otherAgentId, getRelationship(social, otherAgentId) + delta)

\* RELATIONSHIP_CHANGES[type]?.both || FAMILY_BASE
FamilyChange(type) ==
    IF type \in DOMAIN RELATIONSHIP_CHANGES /\ "both" \in DOMAIN RELATIONSHIP_CHANGES[type]
        THEN RELATIONSHIP_CHANGES[type].both
        ELSE RELATIONSHIP_BOUNDS.FAMILY_BASE

\* establishFamily(social1, social2, type) on the socials ss, by id
establishFamily(ss, id1, id2, type) ==
    LET kin == [ss EXCEPT ![id1].familyIds = @ \cup {id2}, ![id2].familyIds = @ \cup {id1}]
        first == [kin EXCEPT ![id1] = modifyRelationship(@, id2, FamilyChange(type))]
    IN  [first EXCEPT ![id2] = modifyRelationship(@, id1, FamilyChange(type))]

\* both directions of a pair changed: actor's score for target, then target's
BothWays(ss, actorId, targetId, mine, theirs) ==
    [[ss EXCEPT ![actorId] = modifyRelationship(@, targetId, mine)]
        EXCEPT ![targetId] = modifyRelationship(@, actorId, theirs)]

\* the object the FIGHT branch builds for a family member:
\* { relationships: new Map([[famId, 0]]) }
Throwaway(famId) == [relationships |-> [x \in {famId} |-> 0]]

\* processSocialAction(actor, target, action, context): the socials after the
\* call, the events it returned, and whether it raised instead of returning
processSocialAction(ss, actorId, targetId, action, fair) ==
    LET oneWay(delta) == [ss EXCEPT ![targetId] = modifyRelationship(@, actorId, delta)]
        done(after, type) == [socials |-> after, events |-> <<type>>, threw |-> FALSE]
    IN  CASE action = "share_food" ->
                done([oneWay(RELATIONSHIP_CHANGES.share_food.receiver) EXCEPT
                         ![actorId].totalHelpsGiven = @ + 1,
                         ![targetId].totalHelpsReceived = @ + 1], "food_shared")
          [] action = "help" ->
                done([BothWays(ss, actorId, targetId, RELATIONSHIP_CHANGES.help_build.helper,
                               RELATIONSHIP_CHANGES.help_build.helped) EXCEPT
                         ![actorId].totalHelpsGiven = @ + 1,
                         ![targetId].totalHelpsReceived = @ + 1], "helped")
          [] action = "protect" ->
                done(BothWays(ss, actorId, targetId, RELATIONSHIP_CHANGES.protect.protector,
                              RELATIONSHIP_CHANGES.protect.protected), "protected")
          [] action = "trade" ->
                done(IF fair
                         THEN BothWays(ss, actorId, targetId,
                                       RELATIONSHIP_CHANGES.trade_fair.both,
                                       RELATIONSHIP_CHANGES.trade_fair.both)
                         ELSE BothWays(ss, actorId, targetId,
                                       RELATIONSHIP_CHANGES.trade_unfair.winner,
                                       RELATIONSHIP_CHANGES.trade_unfair.loser), "traded")
          [] action = "betray" ->
                done([oneWay(RELATIONSHIP_CHANGES.betray_trade.betrayed) EXCEPT
                         ![actorId].totalBetrayals = @ + 1], "betrayed")
          [] action = "fight" ->
                LET fought == [oneWay(RELATIONSHIP_CHANGES.attack.attacked) EXCEPT
                                  ![actorId].totalFights = @ + 1,
                                  ![targetId].totalFights = @ + 1]
                    others == IF targetId \in ss[actorId].familyIds
                                  THEN ss[actorId].familyIds \ {targetId}
                                  ELSE {}
                IN  IF \E famId \in others : setRelationshipThrows(Throwaway(famId))
                        THEN [socials |-> fought, events |-> <<>>, threw |-> TRUE]
                        ELSE done(fought, "fought")
          [] action = "mate" ->
                done(BothWays(ss, actorId, targetId,
                              RELATIONSHIP_CHANGES.successful_mate.both,
                              RELATIONSHIP_CHANGES.successful_mate.both), "mated")
          [] action = "team_up" -> done(BothWays(ss, actorId, targetId, 3, 3), "teamed_up")
          [] OTHER -> [socials |-> ss, events |-> <<>>, threw |-> FALSE]

\* grantHeroStatus(social, allAgentSocials)
grantHeroStatus(ss, agentId) ==
    [other \in DOMAIN ss |->
        IF other = agentId
            THEN [ss[other] EXCEPT !.isHero = TRUE, !.heroKills = @ + 1]
            ELSE modifyRelationship(ss[other], agentId, 30)]

\* grantLegendStatus(social, allAgentSocials)
grantLegendStatus(ss, agentId) ==
    [other \in DOMAIN ss |->
        IF other = agentId
            THEN [ss[other] EXCEPT !.isLegend = TRUE, !.heroKills = @ + 1]
            ELSE setRelationship(ss[other], agentId, RELATIONSHIP_BOUNDS.MAX)]

(***************************************************************************)
(* unnamed/part_003: the threats system.  Timers are in milliseconds.  A   *)
(* nearby agent is given by its distance to the threat: the agents move    *)
(* between two calls and a patrolling threat moves at random, so each call *)
(* may see any distances.                                                  *)
(***************************************************************************)
\* the fields of THREAT_TYPES that createThreat, updateThreat and
\* calculateCombatOutcome read.  Chances are in millionths; the giant squid
\* has no soloDeathChance (-1), the bull shark no minHunters, no
\* tentacleGrabChance and no inkCloudDuration, which are not read for it.
THREAT_TYPES ==
    [BULL_SHARK |->
        [health |-> 100, damage |-> 40, speed |-> 8, soloDeathChance |-> 900000,
         minHunters |-> 0, tentacleGrabChance |-> 0, inkCloudDuration |-> 0,
         drops |-> [shark_meat |-> [min |-> 6, max |-> 10],
                    shark_teeth |-> [min |-> 8, max |-> 15],
                    shark_skin |-> [min |-> 2, max |-> 4],
                    shark_jaw |-> [min |-> 1, max |-> 1]]],
     GIANT_SQUID |->
        [health |-> 500, damage |-> 80, speed |-> 12, soloDeathChance |-> -1,
         minHunters |-> 6, tentacleGrabChance |-> 300000, inkCloudDuration |-> 10000,
         drops |-> [squid_meat |-> [min |-> 15, max |-> 25],
                    squid_beak |-> [min |-> 1, max |-> 1],
                    squid_tentacle |-> [min |-> 6, max |-> 10],
                    squid_ink |-> [min |-> 2, max |-> 3],
                    squid_eye |-> [min |-> 2, max |-> 2]]]]

createThreat(threatType) ==
    [type |-> threatType, health |-> THREAT_TYPES[threatType].health,
     maxHealth |-> THREAT_TYPES[threatType].health, state |-> "patrolling",
     target |-> -1, damage |-> THREAT_TYPES[threatType].damage,
     speed |-> THREAT_TYPES[threatType].speed, inkCloudActive |-> FALSE,
     inkCloudTimer |-> 0, killerId |-> -1]

\* the forEach of updateThreat: the first in-water agent at the least distance,
\* 0 if there is none
RECURSIVE NearestInWater(_, _, _)
NearestInWater(nearbyAgents, i, best) ==
    IF i > Len(nearbyAgents) THEN best
    ELSE IF nearbyAgents[i].inWater
            /\ (best = 0 \/ nearbyAgents[i].dist < nearbyAgents[best].dist)
        THEN NearestInWater(nearbyAgents, i + 1, i)
    ELSE NearestInWater(nearbyAgents, i + 1, best)

\* threat.health < threat.maxHealth * 0.2
LowHealth(t) == 5 * t.health < t.maxHealth

\* updateThreat(threat, delta, nearbyAgents); inkRoll is Math.random() < 0.2
\* updateThreat after its first line
UpdateLive(t, delta, nearbyAgents, inkRoll) ==
    LET def == THREAT_TYPES[t.type]
        timer == t.inkCloudTimer - delta
        cleared == t.inkCloudActive /\ timer <= 0
        inked == IF t.inkCloudActive
                     THEN [t EXCEPT !.inkCloudTimer = timer, !.inkCloudActive = timer > 0]
                     ELSE t
        events1 == IF cleared THEN <<"ink_cleared">> ELSE <<>>
        n == NearestInWater(nearbyAgents, 1, 0)
        found == n # 0
        \* nearestDist is Infinity when no agent is in the water
        within(limit) == found /\ nearbyAgents[n].dist < limit
        beyond(limit) == ~found \/ nearbyAgents[n].dist > limit
        switched ==
            CASE inked.state = "patrolling" ->
                    IF within(30)
                        THEN [threat |-> [inked EXCEPT !.state = "attacking",
                                                       !.target = nearbyAgents[n].id],
                              events |-> Append(events1, "threat_aggro")]
                        ELSE [threat |-> inked, events |-> events1]
              [] inked.state = "attacking" ->
                    IF beyond(50)
                        THEN [threat |-> [inked EXCEPT !.state = "patrolling", !.target = -1],
                              events |-> events1]
                    ELSE IF nearbyAgents[n].dist > 2
                        THEN [threat |-> inked, events |-> events1]
                    ELSE IF t.type = "GIANT_SQUID" /\ inkRoll
                        THEN [threat |-> [inked EXCEPT !.inkCloudActive = TRUE,
                                                       !.inkCloudTimer = def.inkCloudDuration],
                              events |-> events1 \o <<"threat_attack", "ink_cloud">>]
                    ELSE [threat |-> inked, events |-> Append(events1, "threat_attack")]
              [] inked.state = "fleeing" ->
                    IF beyond(100)
                        THEN [threat |-> [inked EXCEPT !.state = "dead"],
                              events |-> Append(events1, "threat_fled")]
                        ELSE [threat |-> inked, events |-> events1]
              [] OTHER -> [threat |-> inked, events |-> events1]
    IN  IF LowHealth(switched.threat) /\ switched.threat.state # "fleeing"
            THEN [threat |-> [switched.threat EXCEPT !.state = "fleeing"],
                  events |-> Append(switched.events, "threat_fleeing")]
            ELSE switched

\* updateThreat without its first line
updateThreatOfTheDead(t, delta, nearbyAgents, inkRoll) ==
    UpdateLive(t, delta, nearbyAgents, inkRoll)

updateThreat(t, delta, nearbyAgents, inkRoll) ==
    IF t.state = "dead" THEN [threat |-> t, events |-> <<>>]
    ELSE UpdateLive(t, delta, nearbyAgents, inkRoll)

\* damageThreat(threat, amount, attackerId)
damageThreat(t, amount, attackerId) ==
    IF t.health - amount <= 0
        THEN [threat |-> [t EXCEPT !.health = @ - amount, !.state = "dead",
                                   !.killerId = attackerId],
              killed |-> TRUE]
        ELSE [threat |-> [t EXCEPT !.health = @ - amount], killed |-> FALSE]

\* the chance without the cap
CapChanceOff(successChance) == successChance

\* Math.min(0.9, successChance)
CapChance(successChance) == Min(900000, successChance)

RECURSIVE SkillSum(_, _)
SkillSum(hunters, i) ==
    IF i > Len(hunters) THEN 0 ELSE hunters[i].combatSkill + SkillSum(hunters, i + 1)

\* the success chance calculateCombatOutcome compares its roll against, in
\* millionths; the average combat skill is a level, times 0.3
SuccessChance(threatType, hunters) ==
    LET def == THREAT_TYPES[threatType]
        hunterCount == Len(hunters)
        hasProperWeapons == \E i \in DOMAIN hunters : hunters[i].hasSpear
        base == IF threatType = "BULL_SHARK"
                    THEN (IF hunterCount = 1 THEN 100000
                          ELSE IF hunterCount = 2 THEN 300000
                          ELSE IF hunterCount >= 3 THEN 500000 + (hunterCount - 3) * 100000
                          ELSE 0)
                ELSE IF hunterCount < def.minHunters THEN 50000
                ELSE 300000 + (hunterCount - def.minHunters) * 50000
        armed == IF hasProperWeapons THEN base
                 ELSE IF threatType = "BULL_SHARK" THEN (base * 3) \div 10
                 ELSE (base * 2) \div 10
    IN  CapChance(armed + (SkillSum(hunters, 1) * 300000) \div hunterCount)

\* generateDrops(dropTable): range.min + floor(Math.random() * (max - min + 1))
\* for each item, roll being the value Math.random() returned
generateDrops(dropTable, roll) ==
    [itemId \in DOMAIN dropTable |->
        dropTable[itemId].min
            + (roll * (dropTable[itemId].max - dropTable[itemId].min + 1)) \div Unit]

\* calculateCombatOutcome(threat, hunters) for a threat type of THREAT_TYPES.
\* rolls: the values of Math.random() for the success test, for each hunter's
\* tentacle grab and death test, and for the drops.  A comparison with the
\* squid's undefined soloDeathChance is false.
calculateCombatOutcome(threatType, hunters, rolls) ==
    LET def == THREAT_TYPES[threatType]
        hunterCount == Len(hunters)
        successChance == SuccessChance(threatType, hunters)
        success == rolls.success < successChance
        grabbed(i) == threatType = "GIANT_SQUID" /\ rolls.grab[i] < def.tentacleGrabChance
        known == hunterCount # 1 \/ success \/ def.soloDeathChance >= 0
        deathChance(i) ==
            (IF hunterCount = 1
                 THEN (IF success THEN 300000 ELSE def.soloDeathChance)
                 ELSE (IF success THEN 100000 ELSE 500000))
                + (IF grabbed(i) THEN 400000 ELSE 0)
    IN  [successChance |-> successChance,
         success |-> success,
         casualties |-> {hunters[i].id : i \in {j \in DOMAIN hunters :
                                                  known /\ rolls.death[j] < deathChance(j)}},
         drops |-> IF success THEN generateDrops(def.drops, rolls.drop) ELSE NoSlots,
         killerId |-> IF success /\ hunterCount > 0 THEN hunters[1].id ELSE -1]

(***************************************************************************)
(* SpecRng: resetSeed and seededRandom called in any order                 *)
(***************************************************************************)
MaxDraws == 3
SeedSamples == {0, 1, 23, 24, ConfigSeed, 116640, 233278, 233279}

RngIdle == /\ seed = ConfigSeed
           /\ rngLog = <<>>
           /\ rngFirst = <<>>
           /\ rngArg = -1

InvIdle == /\ inventory = createInventory(0)
           /\ now = 0
           /\ ret = "none"
           /\ prevInv = createInventory(0)
           /\ lastCall = [op |-> "none", resourceId |-> "none", count |-> 0, n |-> 0]
           /\ invLog = <<>>

NoGestation == [pregnancies |-> 0, births |-> 0, time |-> 0,
                onTime |-> TRUE, justBorn |-> FALSE]

NeedsIdle == /\ needsObj = createAgentNeeds(18000, 0, 0, 0)
             /\ needsN = 0
             /\ zeroSpan = 0
             /\ gestation = NoGestation

SkillsIdle == /\ skillsObj = createAgentSkills
              /\ skillsN = 0

CatchIdle ==
    catchCall = [level |-> 0, energy |-> 0, attempts |-> 0, before |-> 0, rate |-> 0,
                 success |-> FALSE, n |-> 0]

\* the world before createTribeMembers and the create functions have run
NoWorld ==
    [tribeMembers |-> NoSlots, hut |-> [storage |-> HutStorage(0, 0, 0, 0)],
     allTrees |-> <<>>, allRocks |-> <<>>, fishList |-> <<>>,
     claimedResources |-> NoSlots, criticalNeeds |-> NoSlots,
     fishingAttempts |-> NoSlots, totalDeaths |-> 0, seed |-> ConfigSeed, clock |-> 0,
     simulationSpeed |-> CONFIG.simulationSpeed]

SimIdle == /\ tribeMembers = NoWorld.tribeMembers
           /\ hut = NoWorld.hut
           /\ allTrees = <<>>
           /\ allRocks = <<>>
           /\ fishList = <<>>
           /\ claimedResources = NoSlots
           /\ criticalNeeds = NoSlots
           /\ fishingAttempts = NoSlots
           /\ totalDeaths = 0
           /\ pc = [phase |-> "needs", cur |-> 0]
           /\ tick = 0
           /\ planLog = <<>>
           /\ replay = NoWorld
           /\ simulationSpeed = CONFIG.simulationSpeed

NoSocialCall ==
    [op |-> "none", actor |-> -1, target |-> -1, action |-> "none", before |-> NoSlots,
     events |-> <<>>, threw |-> FALSE, n |-> 0]
NoThreat == [state |-> "none"]
NoThreatCall ==
    [op |-> "none", before |-> NoThreat, events |-> <<>>, killed |-> FALSE,
     found |-> FALSE, dist |-> 0, n |-> 0]
NoCombat ==
    [type |-> "none", hunters |-> <<>>,
     outcome |-> [successChance |-> 0, success |-> FALSE, casualties |-> {},
                  drops |-> NoSlots, killerId |-> -1]]
NoFrame ==
    [simulationAccumulator |-> 0, steps |-> 0, running |-> FALSE, frameDelta |-> 0,
     stepDelta |-> 0, totalSimSteps |-> 0, n |-> 0]

SocialIdle == socials = NoSlots /\ socialCall = NoSocialCall
ThreatIdle == threat = NoThreat /\ threatCall = NoThreatCall
CombatIdle == combat = NoCombat
FrameIdle == frame = NoFrame
LateIdle == SocialIdle /\ ThreatIdle /\ CombatIdle /\ FrameIdle

InitRng == RngIdle /\ InvIdle /\ NeedsIdle /\ SkillsIdle /\ CatchIdle /\ SimIdle /\ LateIdle

\* resetSeed(s): a first call with s starts the reference run; a repeated
\* call with the same s starts a replay, compared against the reference.
ResetSeed(s) ==
    /\ seed' = resetSeed(seed, s)
    /\ rngArg' = s
    /\ rngFirst' = IF rngArg = s
                     THEN (IF Len(rngLog) > Len(rngFirst) THEN rngLog ELSE rngFirst)
                     ELSE <<>>
    /\ rngLog' = <<>>
    /\ UNCHANGED notRng

SeededRandom ==
    /\ Len(rngLog) < MaxDraws
    /\ seed' = seededRandom(seed)
    /\ rngLog' = Append(rngLog, seed')
    /\ UNCHANGED <<rngFirst, rngArg>>
    /\ UNCHANGED notRng

NextRng == (\E s \in SeedSamples : ResetSeed(s)) \/ SeededRandom

SpecRng == InitRng /\ [][NextRng]_vars

(***************************************************************************)
(* SpecInv: the inventory helpers called in any order on one inventory     *)
(***************************************************************************)
InvMaxSlots == 2
MaxInvCalls == 3
MaxClock == 2
ClockStep == 40000
InvResources == {"coconut", "grouper", "wood", "fish"}
InvCounts == {1, 2, 5}

NoCall == [op |-> "none", resourceId |-> "none", count |-> 0, n |-> 0]

InitInv ==
    /\ LateIdle
    /\ RngIdle
    /\ NeedsIdle
    /\ SkillsIdle
    /\ CatchIdle
    /\ SimIdle
    /\ inventory = createInventory(InvMaxSlots)
    /\ now = 0
    /\ ret = "none"
    /\ prevInv = createInventory(InvMaxSlots)
    /\ lastCall = NoCall
    /\ invLog = <<>>

InvCall(op, resourceId, count, result) ==
    /\ lastCall.n < MaxInvCalls
    /\ inventory' = result.inv
    /\ ret' = result.ret
    /\ prevInv' = inventory
    /\ lastCall' = [op |-> op, resourceId |-> resourceId, count |-> count,
                    n |-> lastCall.n + 1]
    /\ invLog' = Append(invLog, [op |-> op, resourceId |-> resourceId, count |-> count,
                                  before |-> inventory, ret |-> result.ret])
    /\ UNCHANGED now
    /\ UNCHANGED notInv

AddToInventory(resourceId, count) ==
    InvCall("addToInventory", resourceId, count,
            addToInventory(inventory, resourceId, count, now))

RemoveFromInventory(resourceId, count) ==
    InvCall("removeFromInventory", resourceId, count,
            removeFromInventory(inventory, resourceId, count))

UpdateSpoilage ==
    InvCall("updateSpoilage", "none", 0, updateSpoilage(inventory, now))

AddFishToInventory ==
    InvCall("addFishToInventory", "fish", 1, addFishToInventory(inventory))

ConsumeCraftingResources(recipeId) ==
    InvCall("consumeCraftingResources", recipeId, 0,
            consumeCraftingResources(inventory, recipeId))

\* time passes between calls
AdvanceClock ==
    /\ now < MaxClock * ClockStep
    /\ now' = now + ClockStep
    /\ UNCHANGED <<inventory, ret, prevInv, lastCall, invLog>>
    /\ UNCHANGED notInv

NextInv ==
    \/ \E r \in InvResources, c \in InvCounts : AddToInventory(r, c)
    \/ \E r \in InvResources, c \in InvCounts : RemoveFromInventory(r, c)
    \/ UpdateSpoilage
    \/ AddFishToInventory
    \/ AdvanceClock

SpecInv == InitInv /\ [][NextInv]_vars

(***************************************************************************)
(* SpecCraft: ingredients added to one inventory and recipes consumed from *)
(* it, in any order                                                        *)
(***************************************************************************)
Ingredients == {"wood", "stone", "vine"}
\* the recipes of TOOLS and an id that is no recipe
InvRecipes == DOMAIN TOOLS \cup {"raft"}

NextCraft ==
    \/ \E r \in Ingredients, c \in InvCounts : AddToInventory(r, c)
    \/ \E recipeId \in InvRecipes : ConsumeCraftingResources(recipeId)

SpecCraft == InitInv /\ [][NextCraft]_vars

(***************************************************************************)
(* SpecNeeds: createAgentNeeds / createChildNeeds, then updateNeeds,       *)
(* consumeFood, the fishing energy deduction and startReproduction in any  *)
(* order on one needs object.                                              *)
(***************************************************************************)
MaxNeedsCalls == 3
RollSamples == {0, 999999}
AgeSamples == {18000, 96000}
NeedsDeltas == {50, 6000}
NutritionSamples == {RESOURCES.coconut.nutrition, RESOURCES.grouper.nutrition}

Context(isMoving, isResting, inShelter, inWater, inDeepWater, near, nearSick) ==
    [isMoving |-> isMoving, isResting |-> isResting, inShelter |-> inShelter,
     inWater |-> inWater, inDeepWater |-> inDeepWater,
     nearbyAgentCount |-> near, nearSickAgent |-> nearSick]

NeedsContexts ==
    {Context(FALSE, FALSE, FALSE, FALSE, FALSE, 0, FALSE),
     Context(TRUE, FALSE, FALSE, FALSE, FALSE, 1, TRUE),
     Context(FALSE, TRUE, FALSE, FALSE, FALSE, 0, FALSE),
     Context(FALSE, TRUE, TRUE, FALSE, FALSE, 3, FALSE),
     Context(TRUE, FALSE, FALSE, TRUE, FALSE, 0, FALSE),
     Context(TRUE, FALSE, FALSE, TRUE, TRUE, 0, FALSE)}

\* needs objects as they are later in an agent's life: close to the ends of
\* the ranges, about to give birth, with a full reproduction drive
LaterNeeds ==
    {[createAgentNeeds(18000, 0, 0, 0) EXCEPT
          !.hunger = 300, !.energy = 50, !.health = 200, !.social = 30],
     [createAgentNeeds(18000, 0, 0, 0) EXCEPT
          !.reproductionDrive = 999990, !.social = 999990],
     [createAgentNeeds(18000, 0, 0, 0) EXCEPT
          !.isPregnant = TRUE, !.pregnancyTimer = 29940,
          !.health = 200000, !.energy = 300000]}

InitNeeds ==
    /\ LateIdle
    /\ RngIdle
    /\ InvIdle
    /\ SkillsIdle
    /\ CatchIdle
    /\ SimIdle
    /\ needsObj \in {createAgentNeeds(a, r, r, r) : a \in AgeSamples, r \in RollSamples}
                 \cup {createChildNeeds(0, 0, 0)}
                 \cup LaterNeeds
    /\ needsN = 0
    /\ zeroSpan = 0
    /\ gestation = [NoGestation EXCEPT
                        !.pregnancies = IF needsObj.isPregnant THEN 1 ELSE 0,
                        !.time = needsObj.pregnancyTimer]

NeedsCall(after) ==
    /\ needsN < MaxNeedsCalls
    /\ needsObj' = after
    /\ needsN' = needsN + 1
    /\ UNCHANGED notNeeds

\* needs.energy as the ENERGY block of updateNeeds leaves it
EnergyAfterStep(needs, delta, ctx) ==
    NeedsEnergy(NeedsHunger(NeedsAged(needs, delta, ctx), delta, ctx), delta, ctx).energy

\* the energy step of this updateNeeds call is reached: the agent is alive
\* and neither the old-age roll nor starvation ends the call before it
EnergyStepRuns(needs, delta, ctx, rolls) ==
    /\ needs.alive
    /\ ~OldAgeRoll(NeedsAged(needs, delta, ctx), delta, rolls.oldAge)
    /\ NeedsHunger(NeedsAged(needs, delta, ctx), delta, ctx).hunger > 0

\* the pregnancy record after an updateNeeds call that returned out: the
\* call counts towards the pregnancy when it reaches the PREGNANCY block
Gestated(g, needs, delta, out) ==
    LET reached == needs.alive /\ (out.alive \/ out.deathCause = "childbirth")
        born == Cardinality({i \in DOMAIN out.events : out.events[i] = "give_birth"})
    IN  IF ~needs.alive THEN g
        ELSE
        [g EXCEPT
            !.births = @ + born,
            !.time = IF reached /\ needs.isPregnant THEN @ + delta ELSE @,
            !.onTime = /\ @
                       /\ born > 0 => /\ needs.isPregnant
                                       /\ g.time < needs.pregnancyDuration
                                       /\ g.time + delta >= needs.pregnancyDuration,
            !.justBorn = born > 0]

UpdateNeeds(delta, ctx, rolls) ==
    /\ NeedsCall(updateNeeds(needsObj, delta, ctx, rolls).needs)
    /\ zeroSpan' = IF ~EnergyStepRuns(needsObj, delta, ctx, rolls) THEN zeroSpan
                   ELSE IF ctx.isResting \/ EnergyAfterStep(needsObj, delta, ctx) > 0
                       THEN 0
                   ELSE zeroSpan + delta
    /\ gestation' = Gestated(gestation, needsObj, delta,
                             updateNeeds(needsObj, delta, ctx, rolls))

ConsumeFood(nutrition, isRaw, isSpoiled, roll) ==
    /\ needsObj.alive
    /\ NeedsCall(consumeFood(needsObj, nutrition, isRaw, isSpoiled, roll))
    /\ UNCHANGED <<zeroSpan, gestation>>

FishingEnergyDeduction ==
    /\ needsObj.alive
    /\ NeedsCall(fishingEnergyDeduction(needsObj))
    /\ UNCHANGED <<zeroSpan, gestation>>

StartReproduction(partnerReady, pick) ==
    /\ needsObj.alive
    /\ NeedsCall(startReproduction(needsObj, partnerReady, pick))
    /\ UNCHANGED zeroSpan
    /\ gestation' = IF needsObj'.isPregnant /\ ~needsObj.isPregnant
                        THEN [gestation EXCEPT !.pregnancies = @ + 1, !.time = 0]
                    ELSE gestation

NextNeeds ==
    \/ \E delta \in NeedsDeltas, ctx \in NeedsContexts :
          \E rolls \in RollsDrawn(needsObj, delta, ctx, RollSamples) :
              UpdateNeeds(delta, ctx, rolls)
    \/ \E nutrition \in NutritionSamples, isRaw \in BOOLEAN, isSpoiled \in BOOLEAN,
          roll \in RollSamples :
          ConsumeFood(nutrition, isRaw, isSpoiled, roll)
    \/ FishingEnergyDeduction
    \/ \E partnerReady \in BOOLEAN, pick \in BOOLEAN :
          StartReproduction(partnerReady, pick)

SpecNeeds == InitNeeds /\ [][NextNeeds]_vars

(***************************************************************************)
(* SpecSkills: addSkillXP called any number of times on one agent's skills *)
(***************************************************************************)
MaxSkillCalls == 3
SkillIds == DOMAIN createAgentSkills
\* the amount argument, and twice the apprenticeshipBonus argument (1, 1.5, 2
\* are what getApprenticeshipBonus returns)
XpAmounts == {0, 8, 20, 100, 500, 12000}
BonusDoubled == {2, 3, 4}

InitSkills ==
    /\ LateIdle
    /\ RngIdle
    /\ InvIdle
    /\ NeedsIdle
    /\ SimIdle
    /\ CatchIdle
    /\ skillsObj = createAgentSkills
    /\ skillsN = 0

\* addSkillXP(skills, skillId, amount, apprenticeshipBonus)
AddSkillXP(skillId, amount, bonus2) ==
    /\ skillsN < MaxSkillCalls
    /\ skillsObj' = addSkillXP(skillsObj, skillId, (amount * bonus2) \div 2)
    /\ skillsN' = skillsN + 1
    /\ UNCHANGED notSkills

NextSkills ==
    \E s \in SkillIds, amount \in XpAmounts, bonus2 \in BonusDoubled :
        AddSkillXP(s, amount, bonus2)

SpecSkills == InitSkills /\ [][NextSkills]_vars

(***************************************************************************)
(* Spec: stepSimulation, one member's turn at a time                       *)
(***************************************************************************)
NumAgents == 3
MaxTicks == 14
AgentIds == 0..(NumAgents - 1)

\* the module state of resources.js and the coordinator, as one record
World ==
    [tribeMembers |-> tribeMembers, hut |-> hut, allTrees |-> allTrees,
     allRocks |-> allRocks, fishList |-> fishList,
     claimedResources |-> claimedResources, criticalNeeds |-> criticalNeeds,
     fishingAttempts |-> fishingAttempts, totalDeaths |-> totalDeaths,
     seed |-> seed, clock |-> now, simulationSpeed |-> simulationSpeed]

Becomes(w) ==
    /\ tribeMembers' = w.tribeMembers
    /\ hut' = w.hut
    /\ allTrees' = w.allTrees
    /\ allRocks' = w.allRocks
    /\ fishList' = w.fishList
    /\ claimedResources' = w.claimedResources
    /\ criticalNeeds' = w.criticalNeeds
    /\ fishingAttempts' = w.fishingAttempts
    /\ totalDeaths' = w.totalDeaths
    /\ seed' = w.seed

\* needs objects of agents: as createAgentNeeds makes them, and as they are
\* later in a run (about to starve, tired, hungry, in need of help, past
\* maxNaturalAge)
Fresh25 == createAgentNeeds(25000, 0, 0, 0)
Profiles ==
    [fresh |-> Fresh25,
     starving |-> [Fresh25 EXCEPT !.hunger = 300],
     tired |-> [Fresh25 EXCEPT !.energy = 180000],
     hungry |-> [Fresh25 EXCEPT !.hunger = 280000],
     needy |-> [Fresh25 EXCEPT !.hunger = 150000],
     elder |-> [Fresh25 EXCEPT !.age = 95010, !.lifeStage = getLifeStage(95010)]]

\* one agent at most is not fresh
Casts ==
    {c \in [AgentIds -> DOMAIN Profiles] :
        Cardinality({a \in AgentIds : c[a] # "fresh"}) <= 1}

\* createTribeMembers puts the agents 10 to 60 units from the centre
StartCell(a) == 8 + a

Palm(id, pos, coconuts) ==
    [id |-> id, treeType |-> "palm", pos |-> pos, coconuts |-> coconuts]
JungleTree(id, pos) == [id |-> id, treeType |-> "jungle", pos |-> pos, coconuts |-> 0]

\* islands: one palm; two palms 0 units apart; two palms 10 units apart
OnePalm == <<Palm("palm_0", 10, 2), JungleTree("tree_0", 9)>>
PalmsTogether ==
    <<Palm("palm_0", 10, 3), Palm("palm_1", 10, 1), JungleTree("tree_0", 9)>>
PalmsApart ==
    <<Palm("palm_0", 10, 1), Palm("palm_1", 12, 3), JungleTree("tree_0", 9)>>
Islands == {OnePalm, PalmsTogether, PalmsApart}

\* the hut as createHut leaves it, and with a stock
HutStocks == {HutStorage(0, 0, 0, 0), HutStorage(4, 0, 0, 0), HutStorage(7, 2, 1, 0)}

\* CONFIG.seed, and a seed whose next draw is below 0.002 * delta
SimSeeds == {ConfigSeed, 396}

Init ==
    /\ LateIdle
    /\ rngLog = <<>> /\ rngFirst = <<>> /\ rngArg = -1
    /\ InvIdle
    /\ NeedsIdle
    /\ SkillsIdle
    /\ CatchIdle
    /\ seed \in SimSeeds
    /\ \E c \in Casts :
          tribeMembers = [a \in AgentIds |->
                             createTribeMember(Profiles[c[a]], StartCell(a))]
    /\ \E stock \in HutStocks : hut = [storage |-> stock]
    /\ allTrees \in Islands
    /\ allRocks = <<[id |-> "rock_0", pos |-> 11]>>
    /\ fishList = <<[id |-> "fish_0", pos |-> 18]>>
    /\ claimedResources = NoSlots
    /\ criticalNeeds = NoSlots
    /\ fishingAttempts = [a \in AgentIds |-> 0]
    /\ totalDeaths = 0
    /\ pc = [phase |-> "needs", cur |-> 0]
    /\ tick = 0
    /\ planLog = <<>>
    /\ replay = NoWorld
    /\ simulationSpeed = CONFIG.simulationSpeed

\* the forEach of updateTribeMembers moves on from member a
Advance(a) ==
    pc' = IF a + 1 \in AgentIds THEN [phase |-> "needs", cur |-> a + 1]
          ELSE [phase |-> "regen", cur |-> 0]

\* palms with coconuts on which nobody holds a claim
UnclaimedPalms(w) ==
    {w.allTrees[i].id : i \in {j \in 1..Len(w.allTrees) :
        /\ w.allTrees[j].treeType = "palm"
        /\ w.allTrees[j].coconuts > 0
        /\ w.allTrees[j].id \notin DOMAIN w.claimedResources}}

\* the resource category the plan of a member commits to, "none" for a plan
\* that is not a gathering plan
PlanCategory(w, agentId) ==
    CASE PlanRule(w, agentId) = "gather" -> GatherChoice(w, agentId)
      [] PlanRule(w, agentId) = "maintenance" ->
            SortedTasks(calculateResourcePriorities(w))[1]
      [] OTHER -> "none"

\* updateTribeMembers: a dead member is skipped; updateNeeds; a death ends the
\* turn; a forced_rest event
UpdateMember ==
    /\ pc.phase = "needs"
    /\ LET a == pc.cur
       IN  IF ~tribeMembers[a].alive
               THEN /\ Advance(a)
                    /\ UNCHANGED <<tribeMembers, hut, allTrees, allRocks, fishList,
                                   claimedResources, criticalNeeds, fishingAttempts,
                                   totalDeaths, seed>>
               ELSE \E rolls \in RollsDrawn(tribeMembers[a].needs, CONFIG.fixedTimestep,
                                            MemberContext(World, a), RollSamples) :
                       LET after == MemberNeeds(World, a, rolls)
                       IN  /\ Becomes(after)
                           /\ IF after.tribeMembers[a].alive
                                 THEN pc' = [pc EXCEPT !.phase = "analyze"]
                                 ELSE Advance(a)
    /\ UNCHANGED <<tick, planLog, replay>>
    /\ UNCHANGED notSim

\* tribeCoordinator.analyzeTribe(tribeMembers, hut)
AnalyzeTribe ==
    /\ pc.phase = "analyze"
    /\ Becomes(analyzeTribe(World))
    /\ pc' = [pc EXCEPT !.phase = "plan"]
    /\ UNCHANGED <<tick, planLog, replay>>
    /\ UNCHANGED notSim

\* improvedPlanTask(member, tribeMembers, hut, tribeCoordinator, aiHelpers)
PlanTask ==
    /\ pc.phase = "plan"
    /\ Becomes(improvedPlanTask(World, pc.cur))
    /\ planLog' = Append(planLog,
                         [agent |-> pc.cur,
                          atomic |-> IsAtomic(tribeMembers[pc.cur]),
                          free |-> UnclaimedPalms(World),
                          found |-> findNearestPalmWithCoconuts(World, pc.cur),
                          owned |-> {r \in DOMAIN claimedResources :
                                        claimedResources[r] = pc.cur},
                          category |-> PlanCategory(World, pc.cur),
                          matched |-> {k \in 1..NumRules :
                                          RuleMatches(World, pc.cur, k)}])
    /\ pc' = [pc EXCEPT !.phase = "exec"]
    /\ UNCHANGED <<tick, replay>>
    /\ UNCHANGED notSim

\* executeAgentState(member, delta)
ExecuteAgentState ==
    /\ pc.phase = "exec"
    /\ Becomes(executeAgentState(World, pc.cur))
    /\ Advance(pc.cur)
    /\ UNCHANGED <<tick, planLog, replay>>
    /\ UNCHANGED notSim

\* regenerateCoconuts(delta), the end of stepSimulation
RegenerateCoconuts ==
    /\ pc.phase = "regen"
    /\ tick < MaxTicks
    /\ Becomes(regenerateCoconuts(World))
    /\ pc' = [phase |-> "needs", cur |-> 0]
    /\ tick' = tick + 1
    /\ planLog' = <<>>
    /\ UNCHANGED replay
    /\ UNCHANGED notSim

Next ==
    \/ UpdateMember
    \/ AnalyzeTribe
    \/ PlanTask
    \/ ExecuteAgentState
    \/ RegenerateCoconuts

Spec == Init /\ [][Next]_vars

(***************************************************************************)
(* SpecReset: the tick loop, with IslandSimulationAPI.reset() called       *)
(* between steps                                                           *)
(***************************************************************************)
RECURSIVE Draws(_, _)
\* _seed after n calls of seededRandom(), the calls taken half by half
Draws(s, n) ==
    IF n = 0 THEN s
    ELSE IF n = 1 THEN seededRandom(s)
    ELSE CHOOSE last \in {Draws(half, n - n \div 2) : half \in {Draws(s, n \div 2)}} : TRUE

\* seededRandom() calls per member in createTribeMembers: 20 in
\* createTribeMember (skin, hair, 16 skirt strands, walkPhase, age), 2 in
\* getRandomIslandPosition when its first position is high enough, 1 for the
\* rotation
DrawsPerMember == 23

\* member a as createTribeMembers makes it from the stream s: age 18 +
\* seededRandom() * 15, at 10 + seededRandom() * 50 units from the centre;
\* createAgentNeeds takes roll from Math.random()
CreatedMember(s, a, roll) ==
    LET ageDraw == Draws(s, DrawsPerMember * a + 20)
        distDraw == Draws(s, DrawsPerMember * a + 22)
        age == 18000 + (ageDraw * 15) \div (RngModulus \div 1000)
        dist == 10 + (distDraw * 50) \div RngModulus
    IN  createTribeMember(createAgentNeeds(age, roll, roll, roll), dist \div CellSize)

RECURSIVE Recount(_, _, _)
\* reset's forEach over allTrees from tree i on, with the stream at s: a palm
\* gets 1 + Math.floor(seededRandom() * 3) coconuts
Recount(trees, s, i) ==
    IF i > Len(trees) THEN [trees |-> trees, seed |-> s]
    ELSE IF trees[i].treeType # "palm" THEN Recount(trees, s, i + 1)
    ELSE Recount([trees EXCEPT ![i].coconuts = 1 + (3 * seededRandom(s)) \div RngModulus],
                 seededRandom(s), i + 1)

\* IslandSimulationAPI.reset()
Reset ==
    /\ pc = [phase |-> "needs", cur |-> 0]
    /\ LET start == resetSeed(seed, CONFIG.seed)
           recounted == Recount(allTrees, Draws(start, DrawsPerMember * NumAgents), 1)
       IN  /\ \E roll \in RollSamples :
                 tribeMembers' = [a \in AgentIds |-> CreatedMember(start, a, roll)]
           /\ allTrees' = recounted.trees
           /\ seed' = recounted.seed
    /\ totalDeaths' = 0
    /\ planLog' = <<>>
    /\ UNCHANGED <<hut, allRocks, fishList, claimedResources, criticalNeeds,
                   fishingAttempts, pc, tick, replay>>
    /\ UNCHANGED notSim

NextReset == Next \/ Reset

SpecReset == Init /\ [][NextReset]_vars

(***************************************************************************)
(* SpecFish: the tick loop with agent 0 spearfishing from the shore.       *)
(* onDestinationReached puts a member with a go_fishing task in this state; *)
(* improvedPlanTask itself plans go_fishing only when hasSpear holds.      *)
(***************************************************************************)
\* the spear as addTool makes it (durability 15), and after 14 catches
SpearDurabilities == {TOOLS.fishing_spear.durability, 1}

Fisher(needs, durability) ==
    [createTribeMember(needs, ShoreCell) EXCEPT
        !.state = "fishing",
        !.task = [Task("go_fishing") EXCEPT !.target = "fish_0"],
        !.inventory = [equipTool(addTool(@, "fishing_spear").inv, "fishing_spear").inv
                          EXCEPT !.tools["fishing_spear"].durability = durability]]

InitFish ==
    /\ LateIdle
    /\ rngLog = <<>> /\ rngFirst = <<>> /\ rngArg = -1
    /\ InvIdle
    /\ NeedsIdle
    /\ SkillsIdle
    /\ CatchIdle
    /\ seed \in SimSeeds
    /\ \E p \in {"fresh", "tired"}, d \in SpearDurabilities :
          tribeMembers = [a \in AgentIds |->
                             IF a = 0 THEN Fisher(Profiles[p], d)
                             ELSE createTribeMember(Fresh25, StartCell(a))]
    /\ \E stock \in HutStocks : hut = [storage |-> stock]
    /\ allTrees = OnePalm
    /\ allRocks = <<[id |-> "rock_0", pos |-> 11]>>
    /\ fishList = <<[id |-> "fish_0", pos |-> 18]>>
    /\ claimedResources = NoSlots
    /\ criticalNeeds = NoSlots
    /\ fishingAttempts = [a \in AgentIds |-> 0]
    /\ totalDeaths = 0
    /\ pc = [phase |-> "needs", cur |-> 0]
    /\ tick = 0
    /\ planLog = <<>>
    /\ replay = NoWorld
    /\ simulationSpeed = CONFIG.simulationSpeed

SpecFish == InitFish /\ [][Next]_vars

(***************************************************************************)
(* SpecArmed: the tick loop for a tribe in which agent_0 has taken a spear *)
(* at the hut and walks to a palm near the shore                           *)
(***************************************************************************)
\* a palm 70 units from the centre, 20 units from the fish
ShorePalm == <<Palm("palm_0", 14, 2), JungleTree("tree_0", 9)>>

\* the member after the get_spear_from_hut branch of onDestinationReached
\* (addTool, equipTool) and a plan that sent it to palm_0, now at cell pos
Spearman(needs, pos) ==
    [createTribeMember(needs, pos) EXCEPT
        !.state = "walking",
        !.task = GatherTask("coconuts", "palm_0"),
        !.inventory = equipTool(addTool(@, "fishing_spear").inv, "fishing_spear").inv]

InitArmed ==
    /\ LateIdle
    /\ rngLog = <<>> /\ rngFirst = <<>> /\ rngArg = -1
    /\ InvIdle
    /\ NeedsIdle
    /\ SkillsIdle
    /\ CatchIdle
    /\ seed \in SimSeeds
    /\ \E p \in {"fresh", "tired", "hungry"} :
          tribeMembers = [a \in AgentIds |->
                             IF a = 0 THEN Spearman(Profiles[p], 12)
                             ELSE createTribeMember(Fresh25, StartCell(a))]
    /\ \E stock \in HutStocks : hut = [storage |-> stock]
    /\ allTrees = ShorePalm
    /\ allRocks = <<[id |-> "rock_0", pos |-> 11]>>
    /\ fishList = <<[id |-> "fish_0", pos |-> 18]>>
    /\ claimedResources = [r \in {"palm_0"} |-> 0]
    /\ criticalNeeds = NoSlots
    /\ fishingAttempts = [a \in AgentIds |-> 0]
    /\ totalDeaths = 0
    /\ pc = [phase |-> "needs", cur |-> 0]
    /\ tick = 0
    /\ planLog = <<>>
    /\ replay = NoWorld
    /\ simulationSpeed = CONFIG.simulationSpeed

SpecArmed == InitArmed /\ [][Next]_vars

(***************************************************************************)
(* SpecFetch: the tick loop from the state a completed craft_spear leaves: *)
(* spears in the store, and agent 0 idle next to the hut, either the       *)
(* crafter with its equipped spear or an agent without one.                *)
(***************************************************************************)
SpearStocks == {HutStorage(5, 2, 1, 1), HutStorage(5, 2, 1, 2), HutStorage(2, 4, 1, 1)}

\* the member after updateCrafting completed (addTool, equipTool, idle)
Crafter(needs, pos) ==
    [createTribeMember(needs, pos) EXCEPT
        !.inventory = equipTool(addTool(@, "fishing_spear").inv, "fishing_spear").inv]

InitFetch ==
    /\ LateIdle
    /\ rngLog = <<>> /\ rngFirst = <<>> /\ rngArg = -1
    /\ InvIdle
    /\ NeedsIdle
    /\ SkillsIdle
    /\ CatchIdle
    /\ seed \in SimSeeds
    /\ \E holds \in BOOLEAN, cell \in {0, 2} :
          tribeMembers = [a \in AgentIds |->
                             IF a = 0
                                 THEN (IF holds THEN Crafter(Fresh25, cell)
                                       ELSE createTribeMember(Fresh25, cell))
                             ELSE createTribeMember(Fresh25, StartCell(a))]
    /\ \E stock \in SpearStocks : hut = [storage |-> stock]
    /\ allTrees \in Islands
    /\ allRocks = <<[id |-> "rock_0", pos |-> 11]>>
    /\ fishList = <<[id |-> "fish_0", pos |-> 18]>>
    /\ claimedResources = NoSlots
    /\ criticalNeeds = NoSlots
    /\ fishingAttempts = [a \in AgentIds |-> 0]
    /\ totalDeaths = 0
    /\ pc = [phase |-> "needs", cur |-> 0]
    /\ tick = 0
    /\ planLog = <<>>
    /\ replay = NoWorld
    /\ simulationSpeed = CONFIG.simulationSpeed

SpecFetch == InitFetch /\ [][Next]_vars

(***************************************************************************)
(* SpecTools: addTool, equipTool, useTool and the spear hand-over of        *)
(* onDestinationReached, in any order on the inventories of two agents.    *)
(***************************************************************************)
ToolAgents == {0, 1}
\* the two tools of TOOLS the model carries, and an id TOOLS does not have
ToolIds == DOMAIN TOOLS \cup {"raft"}
\* the addTool calls made: agent 0 is given any tool, agent 1 spears only
ToolGrants == {g \in ToolAgents \X ToolIds : g[1] = 0 \/ g[2] # "gathering_stick"}

\* onDestinationReached, help_agent with task.giveSpear: the giver's spear
\* entry has no count field, so spearCount is 1 and the whole entry goes
handOverSpear(members, giver, target) ==
    LET from == members[giver].inventory
        to == members[target].inventory
        spearCount == 1
    IN  IF "fishing_spear" \in DOMAIN from.tools /\ (spearCount > 1 \/ ~hasSpear(to))
            THEN [members EXCEPT
                     ![giver].inventory =
                         [from EXCEPT !.tools = Drop(from.tools, "fishing_spear"),
                                      !.equippedTool =
                                          IF @ = "fishing_spear" THEN "null" ELSE @],
                     ![target].inventory =
                         equipTool(addTool(to, "fishing_spear").inv, "fishing_spear").inv]
        ELSE members

InitTools ==
    /\ LateIdle
    /\ rngLog = <<>> /\ rngFirst = <<>> /\ rngArg = -1
    /\ InvIdle
    /\ NeedsIdle
    /\ SkillsIdle
    /\ CatchIdle
    /\ seed = ConfigSeed
    /\ hut = NoWorld.hut
    /\ allTrees = <<>>
    /\ allRocks = <<>>
    /\ fishList = <<>>
    /\ claimedResources = NoSlots
    /\ criticalNeeds = NoSlots
    /\ fishingAttempts = NoSlots
    /\ totalDeaths = 0
    /\ simulationSpeed = CONFIG.simulationSpeed
    /\ pc = [phase |-> "needs", cur |-> 0]
    /\ tick = 0
    /\ planLog = <<>>
    /\ replay = NoWorld
    /\ tribeMembers = [a \in ToolAgents |-> createTribeMember(Fresh25, StartCell(a))]

ToolCall(after) ==
    /\ tribeMembers' = after
    /\ UNCHANGED <<seed, rngLog, rngFirst, rngArg, invVars, needVars, skillVars,
                   catchVars, speedVars, hut, allTrees, allRocks, fishList,
                   claimedResources, criticalNeeds, fishingAttempts, totalDeaths,
                   pc, tick, planLog, replay, lateVars>>

AddTool(a, toolId) ==
    ToolCall([tribeMembers EXCEPT ![a].inventory = addTool(@, toolId).inv])

EquipTool(a, toolId) ==
    ToolCall([tribeMembers EXCEPT ![a].inventory = equipTool(@, toolId).inv])

UseTool(a, toolId) ==
    ToolCall([tribeMembers EXCEPT ![a].inventory = useTool(@, toolId).inv])

GiveSpear(giver, target) ==
    /\ giver # target
    /\ ToolCall(handOverSpear(tribeMembers, giver, target))

NextTools ==
    \/ \E g \in ToolGrants : AddTool(g[1], g[2])
    \/ \E a \in ToolAgents, toolId \in ToolIds : EquipTool(a, toolId)
    \/ \E a \in ToolAgents, toolId \in ToolIds : UseTool(a, toolId)
    \/ \E giver \in ToolAgents, target \in ToolAgents : GiveSpear(giver, target)

SpecTools == InitTools /\ [][NextTools]_vars

(***************************************************************************)
(* SpecCatch: FishingSystem.attemptCatch on its own, for an agent of any   *)
(* fishing level, energy and attempt count                                 *)
(***************************************************************************)
MaxCatchCalls == 2
MaxAttempts == 7
EnergySamples == {0, 180000, 299999, 300000, Unit}

InitCatch ==
    /\ LateIdle
    /\ rngLog = <<>> /\ rngFirst = <<>> /\ rngArg = -1
    /\ InvIdle
    /\ NeedsIdle
    /\ SkillsIdle
    /\ SimIdle
    /\ seed \in SimSeeds
    /\ \E level \in 0..SkillMaxLevel, energy \in EnergySamples, attempts \in 0..MaxAttempts :
          catchCall = [level |-> level, energy |-> energy, attempts |-> attempts,
                       before |-> attempts, rate |-> 0, success |-> FALSE, n |-> 0]

\* FishingSystem.attemptCatch(agent, fish, fishingSystem)
AttemptCatch ==
    /\ catchCall.n < MaxCatchCalls
    /\ catchCall.attempts < MaxAttempts
    /\ LET rate == successRate(catchCall.level, catchCall.energy, catchCall.attempts)
           roll == seededRandom(seed)
           success == roll * 3125 < rate * 729
       IN  /\ seed' = roll
           /\ catchCall' = [catchCall EXCEPT
                               !.before = catchCall.attempts,
                               !.attempts = IF success THEN 0 ELSE @ + 1,
                               !.rate = rate,
                               !.success = success,
                               !.n = @ + 1]
    /\ UNCHANGED notCatch

NextCatch == AttemptCatch

SpecCatch == InitCatch /\ [][NextCatch]_vars

(***************************************************************************)
(* SpecDet: two runs of stepSimulation from the same seed, tick by tick    *)
(***************************************************************************)
\* one member's turn in the forEach of updateTribeMembers
MemberTurn(w, agentId, rolls) ==
    LET after == MemberNeeds(w, agentId, rolls)
    IN  IF ~after.tribeMembers[agentId].alive THEN after
        ELSE executeAgentState(improvedPlanTask(analyzeTribe(after), agentId), agentId)

RECURSIVE TurnsFrom(_, _)
\* the worlds updateTribeMembers can leave from the worlds ws, members from
\* agentId on; the Math.random() values of updateNeeds range over RollSamples
TurnsFrom(ws, agentId) ==
    IF agentId \notin AgentIds THEN ws
    ELSE TurnsFrom(
            UNION {IF ~w.tribeMembers[agentId].alive THEN {w}
                   ELSE {MemberTurn(w, agentId, rolls) :
                            rolls \in RollsDrawn(w.tribeMembers[agentId].needs,
                                                 CONFIG.fixedTimestep,
                                                 MemberContext(w, agentId), RollSamples)} :
                   w \in ws},
            agentId + 1)

\* stepSimulation(delta): updateTribeMembers(delta); regenerateCoconuts(delta)
stepSimulation(w) == {regenerateCoconuts(x) : x \in TurnsFrom({w}, 0)}

\* Date.now() while a run lasts
ClockSamples == {0, 1000}

\* a member as createTribeMember makes it, createAgentNeeds taking the value
\* roll from Math.random(), or a member later in its life
MemberOf(profile, roll, pos) ==
    createTribeMember(IF profile = "fresh" THEN createAgentNeeds(25000, roll, roll, roll)
                      ELSE Profiles[profile], pos)

InitDet ==
    /\ LateIdle
    /\ rngLog = <<>> /\ rngFirst = <<>> /\ rngArg = -1
    /\ InvIdle
    /\ NeedsIdle
    /\ SkillsIdle
    /\ CatchIdle
    /\ seed \in SimSeeds
    /\ hut = [storage |-> HutStorage(0, 0, 0, 0)]
    /\ allTrees = OnePalm
    /\ allRocks = <<[id |-> "rock_0", pos |-> 11]>>
    /\ fishList = <<[id |-> "fish_0", pos |-> 18]>>
    /\ claimedResources = NoSlots
    /\ criticalNeeds = NoSlots
    /\ fishingAttempts = [a \in AgentIds |-> 0]
    /\ totalDeaths = 0
    /\ simulationSpeed = CONFIG.simulationSpeed
    /\ pc = [phase |-> "needs", cur |-> 0]
    /\ tick = 0
    /\ planLog = <<>>
    /\ \E c \in Casts, roll1 \in RollSamples, roll2 \in RollSamples,
          clock \in ClockSamples :
          /\ tribeMembers = [a \in AgentIds |-> MemberOf(c[a], roll1, StartCell(a))]
          /\ replay = [World EXCEPT
                          !.tribeMembers =
                              [a \in AgentIds |-> MemberOf(c[a], roll2, StartCell(a))],
                          !.clock = clock]

MaxDetTicks == 4

\* IslandSimulationAPI.step(1) in both runs
StepRuns ==
    /\ tick < MaxDetTicks
    /\ \E first \in stepSimulation(World), second \in stepSimulation(replay) :
          /\ Becomes(first)
          /\ replay' = second
    /\ tick' = tick + 1
    /\ UNCHANGED <<pc, planLog>>
    /\ UNCHANGED notSim

NextDet == StepRuns

SpecDet == InitDet /\ [][NextDet]_vars

(***************************************************************************)
(* SpecSpeed: two runs from the same state and seed; setSimulationSpeed is *)
(* called on either before step(n).  The agents are fresh adults, for whom  *)
(* updateNeeds evaluates no Math.random().                                 *)
(***************************************************************************)
\* arguments of setSimulationSpeed; the speed is clamped to 1..50
SpeedArgs == {0, 25, 50, 80}

InitSpeed ==
    /\ LateIdle
    /\ rngLog = <<>> /\ rngFirst = <<>> /\ rngArg = -1
    /\ InvIdle
    /\ NeedsIdle
    /\ SkillsIdle
    /\ CatchIdle
    /\ seed \in SimSeeds
    /\ \E stock \in HutStocks : hut = [storage |-> stock]
    /\ allTrees \in Islands
    /\ allRocks = <<[id |-> "rock_0", pos |-> 11]>>
    /\ fishList = <<[id |-> "fish_0", pos |-> 18]>>
    /\ claimedResources = NoSlots
    /\ criticalNeeds = NoSlots
    /\ fishingAttempts = [a \in AgentIds |-> 0]
    /\ totalDeaths = 0
    /\ simulationSpeed = CONFIG.simulationSpeed
    /\ pc = [phase |-> "needs", cur |-> 0]
    /\ tick = 0
    /\ planLog = <<>>
    /\ tribeMembers = [a \in AgentIds |-> createTribeMember(Fresh25, StartCell(a))]
    /\ replay = [tribeMembers |-> tribeMembers, hut |-> hut, allTrees |-> allTrees,
                 allRocks |-> allRocks, fishList |-> fishList,
                 claimedResources |-> NoSlots, criticalNeeds |-> NoSlots,
                 fishingAttempts |-> fishingAttempts, totalDeaths |-> 0,
                 seed |-> seed, clock |-> 0,
                 simulationSpeed |-> CONFIG.simulationSpeed]

\* IslandSimulationAPI.setSimulationSpeed(speed), in the first or second run
SetSimulationSpeed(second, speed) ==
    /\ tick = 0
    /\ LET clamped == Max(1, Min(50, speed))
       IN  IF second
               THEN /\ replay' = [replay EXCEPT !.simulationSpeed = clamped]
                    /\ UNCHANGED simulationSpeed
               ELSE /\ simulationSpeed' = clamped
                    /\ UNCHANGED replay
    /\ UNCHANGED <<tribeMembers, hut, allTrees, allRocks, fishList, claimedResources,
                   criticalNeeds, fishingAttempts, totalDeaths, pc, tick, planLog>>
    /\ UNCHANGED <<rngVars, invVars, needVars, skillVars, catchVars, lateVars>>

NextSpeed ==
    \/ \E second \in BOOLEAN, speed \in SpeedArgs : SetSimulationSpeed(second, speed)
    \/ StepRuns

SpecSpeed == InitSpeed /\ [][NextSpeed]_vars

(***************************************************************************)
(* Properties of setSimulationSpeed (SpecSpeed)                            *)
(***************************************************************************)
\* C18: two runs from the same state and seed that differ only in what was
\* passed to setSimulationSpeed are, after the same number of ticks, in the
\* same state: every agent has the same position, action timer, task, needs
\* and inventory in both.
C18_SpeedIsPresentationOnly ==
    \A a \in DOMAIN tribeMembers :
        /\ tribeMembers[a].pos = replay.tribeMembers[a].pos
        /\ tribeMembers[a].gait = replay.tribeMembers[a].gait
        /\ tribeMembers[a].actionTimer = replay.tribeMembers[a].actionTimer
        /\ tribeMembers[a].task = replay.tribeMembers[a].task
        /\ tribeMembers[a].needs = replay.tribeMembers[a].needs
        /\ tribeMembers[a].inventory = replay.tribeMembers[a].inventory

(***************************************************************************)
(* Properties of the seeded stream (SpecRng)                               *)
(***************************************************************************)
InRange(s) == s \in 0 .. (RngModulus - 1)

\* C8: resetSeed(s) followed by n seededRandom calls returns the same n values
\* each time it is repeated; the generator's state is always an integer in
\* [0, 233280), so every returned value _seed / 233280 lies in [0, 1).  Before
\* the first reseed the step function is checked on every state of the range.
C8_SeededStreamReproducible ==
    /\ InRange(seed)
    /\ \A i \in 1..Len(rngLog) : InRange(rngLog[i])
    /\ \A i \in 1..Min(Len(rngLog), Len(rngFirst)) : rngLog[i] = rngFirst[i]
    /\ (rngArg = -1 /\ rngLog = <<>>) =>
           \A s \in 0 .. (RngModulus - 1) : InRange(NextSeed(s))

\* C8 witness: the sequence after resetSeed(233279) was drawn in full twice
C8_Witness ==
    /\ rngArg = 233279
    /\ Len(rngFirst) = MaxDraws
    /\ Len(rngLog) = MaxDraws

(***************************************************************************)
(* Properties of the inventory helpers (SpecInv)                           *)
(***************************************************************************)
\* C9: after any sequence of addToInventory, removeFromInventory,
\* updateSpoilage and addFishToInventory calls every occupied slot has a count
\* between 1 and the stack size of its resource, and the number of occupied
\* slots does not exceed maxSlots.
C9_SlotsWithinLimits ==
    /\ \A r \in DOMAIN inventory.slots :
           inventory.slots[r].count \in 1 .. StackSizeOf(r)
    /\ SlotCount(inventory) <= inventory.maxSlots

\* C10: addToInventory returns false and leaves the inventory unchanged
\* whenever adding n would exceed the stack size and no new slot is available;
\* removeFromInventory returns null and leaves the inventory unchanged
\* whenever the slot holds fewer than n.
C10_FailureLeavesInventory ==
    /\ ( /\ lastCall.op = "addToInventory"
         /\ lastCall.resourceId \in DOMAIN RESOURCES
         /\ SlotOf(prevInv, lastCall.resourceId).count + lastCall.count
                > StackSizeOf(lastCall.resourceId)
         /\ SlotCount(prevInv) >= prevInv.maxSlots )
       => (ret = "false" /\ inventory = prevInv)
    /\ ( /\ lastCall.op = "removeFromInventory"
         /\ getInventoryCount(prevInv, lastCall.resourceId) < lastCall.count )
       => (ret = "null" /\ inventory = prevInv)

(***************************************************************************)
(* Properties of the needs (SpecNeeds)                                     *)
(***************************************************************************)
InUnit(x) == 0 <= x /\ x <= Unit

\* C5: starting from needs produced by createAgentNeeds or createChildNeeds,
\* after any sequence of updateNeeds, consumeFood and fishing energy
\* deductions, hunger, energy, health, social and reproductionDrive are each
\* within [0, 1].
C5_NeedsWithinUnit ==
    /\ InUnit(needsObj.hunger)
    /\ InUnit(needsObj.energy)
    /\ InUnit(needsObj.health)
    /\ InUnit(needsObj.social)
    /\ InUnit(needsObj.reproductionDrive)

\* C5 witness: a living agent after updateNeeds and consumeFood calls whose
\* needs sit on the clamps: hunger filled to 1, energy and social drained to 0
C5_Witness ==
    /\ needsN = MaxNeedsCalls
    /\ needsObj.alive
    /\ needsObj.hunger = Unit
    /\ needsObj.energy = 0
    /\ needsObj.social = 0

\* the count of every occupied slot
Counts(inv) == [r \in DOMAIN inv.slots |-> inv.slots[r].count]

\* the last two inventory calls were addToInventory(inv, r, k) with r a
\* resource of RESOURCES and count(r) + k within the stack size, and then
\* removeFromInventory(inv, r, k)
AddedThenRemoved ==
    /\ Len(invLog) >= 2
    /\ LET add == invLog[Len(invLog) - 1]
           rem == invLog[Len(invLog)]
       IN  /\ add.op = "addToInventory"
           /\ rem.op = "removeFromInventory"
           /\ add.resourceId \in DOMAIN RESOURCES
           /\ rem.resourceId = add.resourceId
           /\ rem.count = add.count
           /\ getInventoryCount(add.before, add.resourceId) + add.count
                  <= StackSizeOf(add.resourceId)

\* C11: adding k of a resource within its stack size and then removing k of
\* it restores the set of occupied slots and the count of every slot to what
\* they were before the add.
C11_AddRemoveRestores ==
    AddedThenRemoved =>
        Counts(inventory) = Counts(invLog[Len(invLog) - 1].before)

\* k added to a slot that already held some and taken off again: the slot is
\* still there with what it held
C11_Witness ==
    /\ AddedThenRemoved
    /\ invLog[Len(invLog)].ret = "removed"
    /\ invLog[Len(invLog) - 1].resourceId \in DOMAIN inventory.slots

(***************************************************************************)
(* Properties of addSkillXP (SpecSkills)                                   *)
(***************************************************************************)
\* C12: no addSkillXP call lowers the level of a skill, and no call leaves a
\* level above maxLevel (100), however much XP it adds.
C12_LevelMonotoneAndCapped ==
    [][\A s \in SkillIds :
          /\ skillsObj'[s].level >= skillsObj[s].level
          /\ skillsObj'[s].level <= SkillMaxLevel]_vars

\* one call took a skill from a low level to the maximum with XP to spare, and
\* a later call found it there; another skill has gone up a few levels
C12_Witness ==
    /\ skillsN = MaxSkillCalls
    /\ \E s \in SkillIds, u \in SkillIds :
          /\ skillsObj[s].level = SkillMaxLevel
          /\ skillsObj[s].xp > XPTable[1]
          /\ skillsObj[u].level \in 1 .. 10

(***************************************************************************)
(* Properties of the tick loop (Spec)                                      *)
(***************************************************************************)
Owner(r) == claimedResources[r]

\* C1: a resource target has one claimant at most (claimedResources maps a
\* target to one agent), and no step hands a claimed target to another agent:
\* while a claim on a target exists its owner stays the same, so claimResource
\* is only ever called by the owner or on a target nobody has claimed.
C1_NoTakeover ==
    [][\A r \in DOMAIN claimedResources :
          r \in DOMAIN claimedResources' => claimedResources'[r] = claimedResources[r]]_vars

\* two live agents hold claims on different targets they are heading for; the
\* one just planned passed over the nearer target, which the other had claimed
C1_Witness ==
    /\ pc.phase = "exec"
    /\ \E r1 \in DOMAIN claimedResources, r2 \in DOMAIN claimedResources :
          /\ Owner(r1) # Owner(r2)
          /\ Owner(r2) = pc.cur
          /\ tribeMembers[Owner(r1)].alive /\ tribeMembers[Owner(r1)].task.target = r1
          /\ tribeMembers[pc.cur].task.target = r2
          /\ Dist(ResourcePos(World, r1), tribeMembers[pc.cur].pos)
                 < Dist(ResourcePos(World, r2), tribeMembers[pc.cur].pos)

\* C2: after a reconciliation pass (analyzeTribe has just run, the member's
\* plan comes next) no claim is owned by a dead agent.
C2_NoClaimOfTheDead ==
    pc.phase = "plan" => \A r \in DOMAIN claimedResources : tribeMembers[Owner(r)].alive

\* C3: after a reconciliation pass every claim is on the target of its owner's
\* current task, so an agent holds one claim at most and none without a target.
C3_ClaimsAreTaskTargets ==
    pc.phase = "plan" =>
        \A r \in DOMAIN claimedResources : tribeMembers[Owner(r)].task.target = r

\* the last two improvedPlanTask calls of this tick, both on non-atomic agents
\* and the first of them made while exactly one palm with coconuts was unclaimed
TwoPlannedForOnePalm ==
    /\ pc.phase = "exec"
    /\ Len(planLog) >= 2
    /\ ~planLog[Len(planLog) - 1].atomic
    /\ ~planLog[Len(planLog)].atomic
    /\ Cardinality(planLog[Len(planLog) - 1].free) = 1

FirstPlanned == planLog[Len(planLog) - 1]
SecondPlanned == planLog[Len(planLog)]
ThePalm == CHOOSE r \in FirstPlanned.free : TRUE

HasPalm(a) ==
    /\ ThePalm \in DOMAIN claimedResources
    /\ Owner(ThePalm) = a
    /\ tribeMembers[a].task.target = ThePalm

\* C4 as stated: of two non-atomic agents planned one after the other while one
\* palm with coconuts is unclaimed, exactly one ends up with the claim on the
\* palm and the palm as task target, and the other is not given the palm.
C4_ExactlyOneGetsThePalm ==
    TwoPlannedForOnePalm =>
        \/ /\ HasPalm(FirstPlanned.agent)
           /\ tribeMembers[SecondPlanned.agent].task.target # ThePalm
        \/ /\ HasPalm(SecondPlanned.agent)
           /\ tribeMembers[FirstPlanned.agent].task.target # ThePalm

\* C4, amended: when in addition the first agent's palm search returns that
\* palm and its plan commits to gathering coconuts, the first agent owns the
\* claim on the palm and has it as task target, and the second agent's plan
\* takes another target or another rule; without a claim of its own the second
\* agent is not gathering coconuts at all.
C4_FirstGetsThePalm ==
    (/\ TwoPlannedForOnePalm
     /\ FirstPlanned.category = "coconuts"
     /\ FirstPlanned.found = ThePalm) =>
        /\ HasPalm(FirstPlanned.agent)
        /\ tribeMembers[SecondPlanned.agent].task.target # ThePalm
        /\ SecondPlanned.owned = {} =>
               tribeMembers[SecondPlanned.agent].task.type # "gather_coconuts"

\* both agents were after the palm: the second one's plan, too, is a gathering
\* plan, and it went to wood or stone
C4_Witness ==
    /\ TwoPlannedForOnePalm
    /\ FirstPlanned.category = "coconuts"
    /\ FirstPlanned.found = ThePalm
    /\ HasPalm(FirstPlanned.agent)
    /\ SecondPlanned.category \in {"wood", "stone"}
    /\ tribeMembers[SecondPlanned.agent].task.type \in {"gather_wood", "gather_stone"}

\* the first rule, in the order of the code, whose condition holds for the
\* member whose turn it is
FirstMatching ==
    CHOOSE k \in 1..NumRules :
        /\ RuleMatches(World, pc.cur, k)
        /\ \A j \in 1..(k - 1) : ~RuleMatches(World, pc.cur, j)

Crafters ==
    {a \in DOMAIN tribeMembers :
        /\ tribeMembers[a].alive
        /\ tribeMembers[a].task.type \in {"craft_spear", "walk_to_hut_to_craft"}}

\* C21: in every reachable state at most one living agent has a task of type
\* craft_spear or walk_to_hut_to_craft.
C21_AtMostOneCrafter == Cardinality(Crafters) <= 1

\* an agent was just planned while another one is crafting or on its way: the
\* spear urgency is above 0.5 and the hut holds the recipe, and the planned
\* agent was given something else
C21_Witness ==
    /\ pc.phase = "exec"
    /\ Len(planLog) >= 1
    /\ planLog[Len(planLog)].agent = pc.cur
    /\ ~planLog[Len(planLog)].atomic
    /\ tribeMembers[pc.cur].alive
    /\ \A k \in 1..6 : k \notin planLog[Len(planLog)].matched
    /\ Above(calculateResourcePriorities(World).spears, 1, 2)
    /\ canCraftSpear(World)
    /\ Crafters # {}
    /\ pc.cur \notin Crafters

\* the coconuts that this step adds to the inventory of the member whose turn
\* it is
Received ==
    getInventoryCount(tribeMembers'[pc.cur].inventory, "coconut")
        - getInventoryCount(tribeMembers[pc.cur].inventory, "coconut")

\* this step is updateGathering completing a gather_coconuts task
CoconutGatherCompletes ==
    /\ ExecuteAgentState
    /\ tribeMembers[pc.cur].state = "gathering"
    /\ tribeMembers[pc.cur].task.type = "gather_coconuts"
    /\ tribeMembers[pc.cur].task.target \in TreeIds(World)
    /\ Received > 0

\* C24: a completed coconut gather lowers the coconut count of the target palm
\* by the number of coconuts the agent receives, which is never more than the
\* palm held.
C24_GatherTakesFromPalm ==
    [][CoconutGatherCompletes
          => LET i == TreeAt(World, tribeMembers[pc.cur].task.target)
             IN  /\ Received <= allTrees[i].coconuts
                 /\ allTrees'[i].coconuts = allTrees[i].coconuts - Received]_vars

\* C25: improvedPlanTask changes nothing (state, task, timers, claim registry,
\* random stream) when it is called for a member that is dead or whose state
\* is gathering, crafting, eating or fishing.
C25_NoReplanWhenDeadOrAtomic ==
    \A a \in DOMAIN tribeMembers :
        (~tribeMembers[a].alive \/ IsAtomic(tribeMembers[a]))
            => improvedPlanTask(World, a) = World

\* improvedPlanTask was just called for a member in an atomic state for which
\* the condition of a rule above the final rest holds, while another agent is
\* dead
C25_Witness ==
    /\ pc.phase = "exec"
    /\ Len(planLog) >= 1
    /\ planLog[Len(planLog)].agent = pc.cur
    /\ planLog[Len(planLog)].atomic
    /\ IsAtomic(tribeMembers[pc.cur])
    /\ \E k \in 1..12 : k \in planLog[Len(planLog)].matched
    /\ \E b \in DOMAIN tribeMembers : ~tribeMembers[b].alive

\* C6: a dead agent is never touched again: no step changes the member of an
\* agent whose alive flag is false, so alive stays false, deathCause stays what
\* it was, and needs, state, task and inventory stay frozen.
C6_DeadAreFrozen ==
    [][\A a \in DOMAIN tribeMembers :
          (~tribeMembers[a].alive \/ ~tribeMembers[a].needs.alive)
              => tribeMembers'[a] = tribeMembers[a]]_vars

\* an agent died of starvation ticks ago while the others were planned and
\* executed since
C6_Witness ==
    /\ tick >= 4
    /\ pc.phase = "exec"
    /\ \E a \in DOMAIN tribeMembers :
          /\ ~tribeMembers[a].alive
          /\ tribeMembers[a].needs.deathCause = "starvation"
          /\ tribeMembers[a].task.type = "gather_coconuts"
          /\ tribeMembers[pc.cur].alive /\ pc.cur # a

\* C13: an agent whose hunger has reached 0 in the hunger decay of its needs
\* update is dead then and at the end of that tick: needs.alive and
\* member.alive are both false and deathCause is starvation.  (An old-age death
\* returns before the decay, so it leaves hunger above 0.)
C13_StarvedAreDead ==
    \A a \in DOMAIN tribeMembers :
        tribeMembers[a].needs.hunger <= 0 =>
            /\ ~tribeMembers[a].alive
            /\ ~tribeMembers[a].needs.alive
            /\ tribeMembers[a].needs.deathCause = "starvation"

\* the end of a tick in which an agent carrying no food starved, with no
\* coconuts in the hut
C13_Witness ==
    /\ pc = [phase |-> "needs", cur |-> 0]
    /\ tick >= 1
    /\ hut.storage.coconut = 0
    /\ \E a \in DOMAIN tribeMembers :
          /\ tribeMembers[a].needs.hunger = 0
          /\ tribeMembers[a].needs.deathCause = "starvation"
          /\ ~hasFood(tribeMembers[a].inventory)
          /\ totalDeaths >= 1

\* this step is updateCrafting completing a craft_spear task: the member whose
\* turn it is is crafting and the spear is made
CraftCompletes ==
    /\ pc.phase = "exec"
    /\ tribeMembers[pc.cur].state = "crafting"
    /\ tribeMembers[pc.cur].task.type = "craft_spear"
    /\ hut'.storage.fishing_spear # hut.storage.fishing_spear

RECURSIVE SpearsHeld(_, _)
\* fishing spears in the tools of the agents from a on
SpearsHeld(members, a) ==
    IF a \notin DOMAIN members THEN 0
    ELSE SpearCount(members[a].inventory) + SpearsHeld(members, a + 1)

\* C17: a completed craft_spear task takes exactly 2 wood and 1 stone out of
\* the communal store, leaves every other stored resource as it was, and
\* raises the number of fishing spears (store plus agents' tools) by one.
C17_CraftDeductsRecipe ==
    [][CraftCompletes =>
          /\ hut'.storage.wood = hut.storage.wood - 2
          /\ hut'.storage.stone = hut.storage.stone - 1
          /\ \A r \in DOMAIN hut.storage \ {"wood", "stone", "fishing_spear"} :
                 hut'.storage[r] = hut.storage[r]
          /\ hut'.storage.fishing_spear + SpearsHeld(tribeMembers', 0)
                 = hut.storage.fishing_spear + SpearsHeld(tribeMembers, 0) + 1]_vars

\* C19: reset leaves the agents recreated alive with empty inventories and no
\* task, the communal store empty, the claim registry and the fishing attempt
\* counters empty and the death count at zero.
C19_ResetReinitializesAll ==
    [][Reset =>
          /\ \A a \in AgentIds :
                 /\ tribeMembers'[a].alive
                 /\ tribeMembers'[a].inventory = createInventory(InventorySlots)
                 /\ tribeMembers'[a].task = NoTask
                 /\ fishingAttempts'[a] = 0
          /\ hut'.storage = HutStorage(0, 0, 0, 0)
          /\ claimedResources' = NoSlots
          /\ totalDeaths' = 0]_vars

(***************************************************************************)
(* Properties of the armed agent's plan (SpecArmed)                        *)
(***************************************************************************)
\* the inventory holds a fishing spear that equipTool made the equipped tool
EquippedSpear(inv) ==
    /\ "fishing_spear" \in DOMAIN inv.tools
    /\ inv.equippedTool = "fishing_spear"

\* the member is up for planning with an equipped spear, the needs, the
\* coconut urgency, a fish in detection range and a free fisher place that the
\* fishing rule asks for, and no rule above the spear rules matches
FishingCase(w, agentId) ==
    LET member == w.tribeMembers[agentId]
    IN  /\ member.alive /\ ~IsAtomic(member)
        /\ EquippedSpear(member.inventory)
        /\ member.needs.energy > 400000 /\ member.needs.hunger > 300000
        /\ Above(calculateResourcePriorities(w).coconuts, 4, 10)
        /\ findNearestFish(w, agentId) # "none"
        /\ countAgentsOnTask(w, "go_fishing")
               < Max(1, (Cardinality(AliveIds(w)) * 3) \div 10)
        /\ \A k \in 1..7 : ~RuleMatches(w, agentId, k)

\* C23: an agent that holds a fishing spear equipped through equipTool, with
\* energy > 0.4, hunger > 0.3, coconut urgency > 0.4, a fish within detection
\* range, a free fisher place and no higher rule matching, is given a
\* go_fishing task by improvedPlanTask.
C23_ArmedAgentGoesFishing ==
    [][(PlanTask /\ FishingCase(World, pc.cur))
          => tribeMembers'[pc.cur].task.type = "go_fishing"]_vars

(***************************************************************************)
(* Properties of spearfishing (SpecFish)                                   *)
(***************************************************************************)
\* this step is updateFishing making a catch attempt: the member whose turn it
\* is is fishing and attemptCatch draws its roll
CatchAttempt ==
    /\ pc.phase = "exec"
    /\ tribeMembers[pc.cur].state = "fishing"
    /\ seed' # seed

\* the roll drawn is below the success rate of the attempt
CatchSucceeds == seed' * 3125 < CatchRate(World, pc.cur) * 729

C15_RateWithinBaseAndCap ==
    catchCall.n > 0 => (catchCall.rate >= 250000 /\ catchCall.rate <= 950000)

C7_RunsAgree ==
    /\ totalDeaths = replay.totalDeaths
    /\ \A a \in DOMAIN tribeMembers :
          /\ tribeMembers[a].alive = replay.tribeMembers[a].alive
          /\ tribeMembers[a].needs.deathCause = replay.tribeMembers[a].needs.deathCause
          /\ tribeMembers[a].inventory = replay.tribeMembers[a].inventory


(***************************************************************************)
(* C26: exhaustion and drowning deaths                                     *)
(***************************************************************************)
ExhaustionDeaths == {"exhaustion", "drowning"}

\* C26: an agent whose death cause is exhaustion or drowning has energy <= 0
\* and its latest updateNeeds calls in a row that ended the energy step with
\* energy <= 0 sum to at least exhaustionDeathTime; exhaustionTimer is that
\* sum, so it is 0 after a call in which the agent rests or ends the energy
\* step with energy > 0.
C26_ExhaustionNeedsTenSeconds ==
    /\ needsObj.exhaustionTimer = zeroSpan
    /\ needsObj.deathCause \in ExhaustionDeaths
          => /\ needsObj.energy <= 0
             /\ zeroSpan >= NEEDS_CONFIG.exhaustionDeathTime

\* an agent dead of exhaustion after two calls in a row at energy 0, neither
\* of which was long enough alone
C26_Witness ==
    /\ needsObj.deathCause \in ExhaustionDeaths
    /\ zeroSpan = 12000
    /\ needsN >= 2


(***************************************************************************)
(* C27: a death inside updateNeeds stops the call                          *)
(***************************************************************************)
\* the fields each block of updateNeeds writes, in the order of the blocks
HungerFields == {"hunger"}
EnergyFields == {"energy", "exhaustionTimer"}
HealthFields == {"health"}
LastFields == {"social", "reproductionDrive", "isSick", "sicknessTimer",
               "isPregnant", "pregnancyTimer"}

\* the fields of the blocks after the one that returned the death: the old
\* age roll, starvation, exhaustion or drowning, health depletion
LaterFields(needs, delta, ctx, rolls, deathCause) ==
    IF OldAgeRoll(NeedsAged(needs, delta, ctx), delta, rolls.oldAge)
        THEN HungerFields \cup EnergyFields \cup HealthFields \cup LastFields
    ELSE IF deathCause = "starvation"
        THEN EnergyFields \cup HealthFields \cup LastFields
    ELSE IF deathCause \in {"exhaustion", "drowning"}
        THEN HealthFields \cup LastFields
    ELSE IF deathCause \in {"sickness", "old_age"} THEN LastFields
    ELSE {}

DeathsPushed(events) == Cardinality({i \in DOMAIN events : events[i] = "death"})

\* C27: for every updateNeeds call the living agent can make next that
\* returns a death, the needs object after the call has the fields of every
\* later block as they were before it, and the returned events hold exactly
\* one death.
C27_DeathLeavesLaterStages ==
    (needsObj.alive /\ needsN < MaxNeedsCalls) =>
        \A delta \in NeedsDeltas, ctx \in NeedsContexts :
            \A rolls \in RollsDrawn(needsObj, delta, ctx, RollSamples) :
                LET out == updateNeeds(needsObj, delta, ctx, rolls)
                IN  ~out.alive =>
                        /\ \A f \in LaterFields(needsObj, delta, ctx, rolls,
                                                  out.deathCause) :
                               out.needs[f] = needsObj[f]
                        /\ DeathsPushed(out.events) = 1


\* an agent dead of starvation whose energy, health and social needs are
\* those it had before the call, low as they were
C27_Witness ==
    /\ needsObj.deathCause = "starvation"
    /\ needsObj.energy = 50
    /\ needsObj.health = 200
    /\ needsObj.social = 30
    /\ needsN >= 1


(***************************************************************************)
(* C28: one give_birth event per pregnancy                                 *)
(***************************************************************************)
\* C28: a living agent has returned one give_birth event for each of its
\* pregnancies but the current one, each from the first updateNeeds call at
\* which the pregnancy's summed deltas reached pregnancyDuration; an agent
\* that is not pregnant has pregnancyTimer 0; an agent dead of childbirth
\* died in a call that returned give_birth, with health < 0.3.
C28_OneBirthPerPregnancy ==
    /\ gestation.onTime
    /\ needsObj.alive =>
          gestation.births + (IF needsObj.isPregnant THEN 1 ELSE 0)
              = gestation.pregnancies
    /\ needsObj.isPregnant =>
          /\ needsObj.pregnancyTimer = gestation.time
          /\ needsObj.alive => gestation.time < needsObj.pregnancyDuration
    /\ ~needsObj.isPregnant => needsObj.pregnancyTimer = 0
    /\ needsObj.deathCause = "childbirth" =>
          /\ gestation.justBorn
          /\ gestation.births = gestation.pregnancies
          /\ needsObj.health < 300000

\* a living agent that gave birth on its second updateNeeds call at the
\* earliest, the first having left the pregnancy short of its duration
C28_Witness ==
    /\ needsObj.alive
    /\ gestation.births = 1
    /\ gestation.time = 30040
    /\ ~needsObj.isPregnant


(***************************************************************************)
(* C29: addSkillXP against the level-by-level procedure                    *)
(***************************************************************************)
RECURSIVE ReferenceLevelUps(_)
\* while xp >= requirement(current level) and level < max: subtract the
\* requirement of the current level, increment the level
ReferenceLevelUps(skill) ==
    IF skill.xp >= getXPForLevel(skill.level) /\ skill.level < SkillMaxLevel
        THEN ReferenceLevelUps([level |-> skill.level + 1,
                                xp |-> skill.xp - getXPForLevel(skill.level)])
        ELSE skill

\* the reference procedure: add the xp, then level up one level at a time
ReferenceXP(skill, amount) == ReferenceLevelUps([skill EXCEPT !.xp = @ + amount])

\* C29: every addSkillXP call leaves the skill with the level and xp of the
\* reference procedure, and with xp below the requirement of its level
\* unless the level is the maximum.
C29_AddSkillXPMatchesReference ==
    [][\A s \in SkillIds, amount \in XpAmounts, bonus2 \in BonusDoubled :
          AddSkillXP(s, amount, bonus2) =>
              /\ skillsObj'[s] = ReferenceXP(skillsObj[s], (amount * bonus2) \div 2)
              /\ \/ skillsObj'[s].xp < getXPForLevel(skillsObj'[s].level)
                 \/ skillsObj'[s].level = SkillMaxLevel]_vars


C31_ItemsMatchCount ==
    /\ \A r \in DOMAIN inventory.slots :
          Spoilable(r) => /\ Len(inventory.slots[r].items) = inventory.slots[r].count
                          /\ inventory.slots[r].count >= 0
    /\ lastCall.op = "updateSpoilage" =>
          \A r \in DOMAIN prevInv.slots :
              Spoilable(r) =>
                  getInventoryCount(inventory, r)
                      = prevInv.slots[r].count
                          - (Len(prevInv.slots[r].items)
                               - Len(Fresh(prevInv.slots[r].items, now)))


(***************************************************************************)
(* C32: a successful add stores the whole quantity                         *)
(***************************************************************************)
\* C32: after an addToInventory(inv, r, n) call that returned true the count
\* stored for r is n larger than before the call.
C32_AddStoresAll ==
    (lastCall.op = "addToInventory" /\ ret = "true") =>
        getInventoryCount(inventory, lastCall.resourceId)
            = getInventoryCount(prevInv, lastCall.resourceId) + lastCall.count


(***************************************************************************)
(* C33: consumeCraftingResources takes the whole recipe or nothing         *)
(***************************************************************************)
\* C33: a consumeCraftingResources call on an inventory that cannot craft
\* the recipe returns false and leaves the inventory as it was; a call that
\* returns true has lowered every ingredient by its recipe quantity.
C33_WholeRecipeOrNothing ==
    lastCall.op = "consumeCraftingResources" =>
        /\ ~canCraft(prevInv, lastCall.resourceId) =>
               (ret = "false" /\ inventory = prevInv)
        /\ ret = "true" =>
               \A r \in DOMAIN TOOLS[lastCall.resourceId].recipe :
                   getInventoryCount(inventory, r)
                       = getInventoryCount(prevInv, r)
                           - TOOLS[lastCall.resourceId].recipe[r]


(***************************************************************************)
(* C34: fetching a spear from the communal store                           *)
(***************************************************************************)
\* this step is onDestinationReached completing get_spear_from_hut: the
\* member whose turn it is walks on that task and is idle afterwards
FetchCompletes ==
    /\ ExecuteAgentState
    /\ tribeMembers[pc.cur].state = "walking"
    /\ tribeMembers[pc.cur].task.type = "get_spear_from_hut"
    /\ tribeMembers'[pc.cur].state = "idle"

\* C34: a completed get_spear_from_hut lowers the store's fishing_spear
\* count by one exactly when the spears held by the agents rise by one, and
\* leaves the number of spears in store plus agents as it was.
C34_FetchMovesOneSpear ==
    [][FetchCompletes =>
          /\ (hut'.storage.fishing_spear = hut.storage.fishing_spear - 1)
                <=> (SpearsHeld(tribeMembers', 0) = SpearsHeld(tribeMembers, 0) + 1)
          /\ hut'.storage.fishing_spear + SpearsHeld(tribeMembers', 0)
                = hut.storage.fishing_spear + SpearsHeld(tribeMembers, 0)]_vars


(***************************************************************************)
(* SpecSocial: the calls of the social system, in any order, on the social *)
(* objects of three agents                                                 *)
(***************************************************************************)
MaxSocialCalls == 2
SocialIds == {0, 1, 2}
\* the pairs (whose score, about whom) setRelationship and modifyRelationship
\* are called on, the scores and the deltas passed
RelationPairs == {<<1, 0>>, <<0, 2>>}
ScoreArgs == {-150, -30, 29, 100}
DeltaArgs == {-40, 31}
FamilyPairs == {<<0, 1>>, <<0, 2>>, <<1, 2>>}
FamilyTypes == {"parent_child", "sibling"}
\* processSocialAction: every action between agents 0 and 1, a fight between
\* the other pairs
ActionArgs ==
    {[actor |-> 0, target |-> 1, action |-> action, fair |-> TRUE] : action \in SOCIAL_ACTIONS}
        \cup {[actor |-> 0, target |-> 1, action |-> "trade", fair |-> FALSE],
              [actor |-> 0, target |-> 2, action |-> "fight", fair |-> TRUE],
              [actor |-> 1, target |-> 0, action |-> "fight", fair |-> TRUE]}

\* the agents before the calls: strangers, a parent (0) and its child (1), or
\* a parent and its two children, who are siblings
Strangers == [a \in SocialIds |-> createAgentSocial(a)]
OneChild == establishFamily(Strangers, 0, 1, "parent_child")
TwoChildren ==
    establishFamily(establishFamily(OneChild, 0, 2, "parent_child"), 1, 2, "sibling")

notSocial == <<rngVars, invVars, needVars, skillVars, catchVars, speedVars, simVars,
              threatVars, combatVars, frameVars>>

InitSocial ==
    /\ RngIdle /\ InvIdle /\ NeedsIdle /\ SkillsIdle /\ CatchIdle /\ SimIdle
    /\ ThreatIdle /\ CombatIdle /\ FrameIdle
    /\ socials \in {Strangers, OneChild, TwoChildren}
    /\ socialCall = NoSocialCall

SocialCall(op, actorId, targetId, action, result) ==
    /\ socialCall.n < MaxSocialCalls
    /\ socials' = result.socials
    /\ socialCall' = [op |-> op, actor |-> actorId, target |-> targetId, action |-> action,
                      before |-> socials, events |-> result.events,
                      threw |-> result.threw, n |-> socialCall.n + 1]
    /\ UNCHANGED notSocial

Returned(after) == [socials |-> after, events |-> <<>>, threw |-> FALSE]

SetRelationship(a, b, score) ==
    SocialCall("setRelationship", a, b, "none",
               Returned([socials EXCEPT ![a] = setRelationship(@, b, score)]))

ModifyRelationship(a, b, delta) ==
    SocialCall("modifyRelationship", a, b, "none",
               Returned([socials EXCEPT ![a] = modifyRelationship(@, b, delta)]))

EstablishFamily(a, b, type) ==
    SocialCall("establishFamily", a, b, type, Returned(establishFamily(socials, a, b, type)))

ProcessSocialAction(a, b, action, fair) ==
    SocialCall("processSocialAction", a, b, action,
               processSocialAction(socials, a, b, action, fair))

GrantHeroStatus(a) ==
    SocialCall("grantHeroStatus", a, -1, "none", Returned(grantHeroStatus(socials, a)))

GrantLegendStatus(a) ==
    SocialCall("grantLegendStatus", a, -1, "none", Returned(grantLegendStatus(socials, a)))

NextSocial ==
    \/ \E p \in RelationPairs, score \in ScoreArgs : SetRelationship(p[1], p[2], score)
    \/ \E p \in RelationPairs, delta \in DeltaArgs : ModifyRelationship(p[1], p[2], delta)
    \/ \E p \in FamilyPairs, type \in FamilyTypes : EstablishFamily(p[1], p[2], type)
    \/ \E c \in ActionArgs : ProcessSocialAction(c.actor, c.target, c.action, c.fair)
    \/ \E a \in SocialIds : GrantHeroStatus(a)
    \/ \E a \in SocialIds : GrantLegendStatus(a)

SpecSocial == InitSocial /\ [][NextSocial]_vars

(***************************************************************************)
(* Properties of the social system (SpecSocial)                            *)
(***************************************************************************)
\* C35: every stored relationship score lies in [-100, 100], and for every
\* agent a and other agent b: b is in a.friendIds exactly if a's score for b
\* is at least 30, and b is in a.enemyIds exactly if that score is at most -30
C35_SetsFollowScores ==
    \A a \in DOMAIN socials :
        /\ \A b \in DOMAIN socials[a].relationships :
              /\ socials[a].relationships[b] >= RELATIONSHIP_BOUNDS.MIN
              /\ socials[a].relationships[b] <= RELATIONSHIP_BOUNDS.MAX
        /\ \A b \in DOMAIN socials \ {a} :
              /\ b \in socials[a].friendIds
                    <=> getRelationship(socials[a], b) >= RELATIONSHIP_BOUNDS.FRIEND_THRESHOLD
              /\ b \in socials[a].enemyIds
                    <=> getRelationship(socials[a], b) <= RELATIONSHIP_BOUNDS.ENEMY_THRESHOLD
        /\ socials[a].friendIds \cap socials[a].enemyIds = {}

\* a friend has become an enemy, and a score was clamped at each end
C35_Witness ==
    /\ socialCall.n > 0
    /\ \E a \in DOMAIN socials, b \in DOMAIN socials :
          /\ a # b
          /\ b \in socialCall.before[a].friendIds
          /\ b \in socials[a].enemyIds
          /\ socials[a].relationships[b] = RELATIONSHIP_BOUNDS.MIN
    /\ \E a \in DOMAIN socials :
          \E b \in DOMAIN socials[a].relationships :
              socials[a].relationships[b] = RELATIONSHIP_BOUNDS.MAX

\* C36: processSocialAction(actor, target, FIGHT) on a target who is kin of
\* the actor lowers the target's opinion of the actor by 25 and every other
\* family member's stored opinion of the actor by 100, clamped at -100, and
\* returns its event list instead of raising
C36_FamilyTurnsOnTheAttacker ==
    (/\ socialCall.op = "processSocialAction"
     /\ socialCall.action = "fight"
     /\ socialCall.target \in socialCall.before[socialCall.actor].familyIds)
    => /\ ~socialCall.threw
       /\ socialCall.events = <<"fought">>
       /\ getRelationship(socials[socialCall.target], socialCall.actor)
             = Max(RELATIONSHIP_BOUNDS.MIN,
                   getRelationship(socialCall.before[socialCall.target], socialCall.actor) - 25)
       /\ \A famId \in socialCall.before[socialCall.actor].familyIds \ {socialCall.target} :
             getRelationship(socials[famId], socialCall.actor)
                = Max(RELATIONSHIP_BOUNDS.MIN,
                      getRelationship(socialCall.before[famId], socialCall.actor) - 100)


(***************************************************************************)
(* SpecThreat: updateThreat and damageThreat called in any order on a      *)
(* threat that createThreat made                                           *)
(***************************************************************************)
MaxThreatCalls == 4
ThreatDeltas == {50, 6000}
DamageArgs == {45, 410}
Swimmer(id, dist) == [id |-> id, inWater |-> TRUE, dist |-> dist]
\* the nearbyAgents of a call: nobody, one swimmer at some distance, an agent
\* on land next to the threat and a swimmer at some distance
NearbySamples ==
    {<<>>}
        \cup {<<Swimmer(0, d)>> : d \in {1, 20, 40, 70, 120}}
        \cup {<<[id |-> 0, inWater |-> FALSE, dist |-> 1], Swimmer(1, d)>> : d \in {20, 120}}

notThreat == <<rngVars, invVars, needVars, skillVars, catchVars, speedVars, simVars,
              socialVars, combatVars, frameVars>>

InitThreat ==
    /\ RngIdle /\ InvIdle /\ NeedsIdle /\ SkillsIdle /\ CatchIdle /\ SimIdle
    /\ SocialIdle /\ CombatIdle /\ FrameIdle
    /\ \E threatType \in DOMAIN THREAT_TYPES : threat = createThreat(threatType)
    /\ threatCall = NoThreatCall

UpdateThreat(delta, nearbyAgents, inkRoll) ==
    /\ threatCall.n < MaxThreatCalls
    /\ LET result == updateThreat(threat, delta, nearbyAgents, inkRoll)
           n == NearestInWater(nearbyAgents, 1, 0)
       IN  /\ threat' = result.threat
           /\ threatCall' = [op |-> "updateThreat", before |-> threat,
                             events |-> result.events, killed |-> FALSE,
                             found |-> n # 0,
                             dist |-> IF n # 0 THEN nearbyAgents[n].dist ELSE 0,
                             n |-> threatCall.n + 1]
    /\ UNCHANGED notThreat

DamageThreat(amount, attackerId) ==
    /\ threatCall.n < MaxThreatCalls
    /\ LET result == damageThreat(threat, amount, attackerId)
       IN  /\ threat' = result.threat
           /\ threatCall' = [op |-> "damageThreat", before |-> threat, events |-> <<>>,
                             killed |-> result.killed, found |-> FALSE, dist |-> 0,
                             n |-> threatCall.n + 1]
    /\ UNCHANGED notThreat

NextThreat ==
    \/ \E delta \in ThreatDeltas, nearbyAgents \in NearbySamples, inkRoll \in BOOLEAN :
          UpdateThreat(delta, nearbyAgents, inkRoll)
    \/ \E amount \in DamageArgs : DamageThreat(amount, 0)

SpecThreat == InitThreat /\ [][NextThreat]_vars

(***************************************************************************)
(* Properties of the threats system (SpecThreat)                           *)
(***************************************************************************)
ThreatStates == {"patrolling", "attacking", "fleeing", "dead"}

\* the last call changed the threat's state along one of the moves
MovedAlong(moves) ==
    (threatCall.n > 0 /\ threatCall.before.state # threat.state)
    => IF threatCall.op = "damageThreat"
           THEN threat.state = "dead" /\ threatCall.killed
           ELSE <<threatCall.before.state, threat.state>> \in moves

DeadStaysDead ==
    (threatCall.n > 0 /\ threatCall.before.state = "dead") => threat.state = "dead"

C38_FledThreatIsDead ==
    (/\ threatCall.op = "updateThreat"
     /\ threatCall.before.state = "fleeing"
     /\ (~threatCall.found \/ threatCall.dist > 100))
    => /\ Pushed(threatCall.events, "threat_fled")
       /\ threat.state = "dead"


(***************************************************************************)
(* SpecCombat: calculateCombatOutcome called on hunting parties of every   *)
(* size up to MaxHunters                                                   *)
(***************************************************************************)
MaxHunters == 8
\* combat skill levels of the hunters
CombatSkills == {0, 1, 10}
\* a party of n hunters: the last one carries the spear if the party is
\* armed, every other hunter has the skill level and the rest have none
Party(n, armed, skill) ==
    [i \in 1..n |-> [id |-> i - 1, hasSpear |-> armed /\ i = n,
                     combatSkill |-> IF i % 2 = 1 THEN skill ELSE 0]]
Parties == {Party(n, armed, skill) : n \in 1..MaxHunters, armed \in BOOLEAN,
                                     skill \in CombatSkills}
\* values of Math.random(), in millionths
CombatRolls == {0, 899999, 999999}

notCombat == <<rngVars, invVars, needVars, skillVars, catchVars, speedVars, simVars,
              socialVars, threatVars, frameVars>>

InitCombat ==
    /\ RngIdle /\ InvIdle /\ NeedsIdle /\ SkillsIdle /\ CatchIdle /\ SimIdle
    /\ SocialIdle /\ ThreatIdle /\ FrameIdle
    /\ combat = NoCombat

CalculateCombatOutcome(threatType, hunters, rolls) ==
    /\ combat' = [type |-> threatType, hunters |-> hunters,
                  outcome |-> calculateCombatOutcome(threatType, hunters, rolls)]
    /\ UNCHANGED notCombat

NextCombat ==
    \E threatType \in DOMAIN THREAT_TYPES, hunters \in Parties,
       first \in CombatRolls, second \in CombatRolls :
        CalculateCombatOutcome(threatType, hunters,
            [success |-> first, drop |-> second,
             grab |-> [i \in DOMAIN hunters |-> IF i % 2 = 1 THEN second ELSE first],
             death |-> [i \in DOMAIN hunters |-> IF i % 2 = 1 THEN first ELSE second]])

SpecCombat == InitCombat /\ [][NextCombat]_vars

(***************************************************************************)
(* Properties of calculateCombatOutcome (SpecCombat)                       *)
(***************************************************************************)
\* C39: for every threat type and every hunting party of one hunter or more,
\* whatever its weapons and combat skill levels, the success chance that
\* calculateCombatOutcome compares its roll against lies in [0, 0.9]
C39_SuccessChanceInRange ==
    combat.type # "none"
        => /\ combat.outcome.successChance >= 0
           /\ combat.outcome.successChance <= 900000

\* a party whose chance exceeds 0.9 before the cap: eight armed hunters on a
\* bull shark (0.5 + 5 * 0.1), and a roll of 0.899999 succeeds
C39_Witness ==
    /\ combat.type = "BULL_SHARK"
    /\ Len(combat.hunters) = 8
    /\ \E i \in DOMAIN combat.hunters : combat.hunters[i].hasSpear
    /\ combat.outcome.successChance = 900000
    /\ combat.outcome.success


(***************************************************************************)
(* SpecAnimate: the host calls animate once per frame; the steps of its    *)
(* while loop are taken one at a time.  The FPS counters of animate are    *)
(* display values and are left out.                                        *)
(***************************************************************************)
MaxFrames == 2
\* clock.getDelta() in milliseconds: a frame at 60 FPS, and a stalled frame
GetDeltas == {16, 250}
FrameSpeeds == {1, 10, 50}

\* simulationAccumulator >= CONFIG.fixedTimestep, without the cap on steps
LoopRunsUncapped(simulationAccumulator, steps) ==
    simulationAccumulator >= CONFIG.fixedTimestep

\* simulationAccumulator >= CONFIG.fixedTimestep && steps < CONFIG.maxStepsPerFrame
LoopRuns(simulationAccumulator, steps) ==
    simulationAccumulator >= CONFIG.fixedTimestep /\ steps < CONFIG.maxStepsPerFrame

InitAnimate ==
    /\ rngLog = <<>> /\ rngFirst = <<>> /\ rngArg = -1
    /\ InvIdle /\ NeedsIdle /\ SkillsIdle /\ CatchIdle
    /\ SocialIdle /\ ThreatIdle /\ CombatIdle
    /\ seed = ConfigSeed
    /\ hut = [storage |-> HutStorage(0, 0, 0, 0)]
    /\ allTrees = OnePalm
    /\ allRocks = <<[id |-> "rock_0", pos |-> 11]>>
    /\ fishList = <<[id |-> "fish_0", pos |-> 18]>>
    /\ claimedResources = NoSlots
    /\ criticalNeeds = NoSlots
    /\ fishingAttempts = [a \in AgentIds |-> 0]
    /\ totalDeaths = 0
    /\ simulationSpeed \in FrameSpeeds
    /\ pc = [phase |-> "needs", cur |-> 0]
    /\ tick = 0
    /\ planLog = <<>>
    /\ tribeMembers = [a \in AgentIds |-> createTribeMember(Fresh25, StartCell(a))]
    /\ replay = NoWorld
    /\ frame = NoFrame

notFrame == <<rngLog, rngFirst, rngArg, invVars, needVars, skillVars, catchVars,
             socialVars, threatVars, combatVars>>
worldVars == <<seed, simulationSpeed, tribeMembers, hut, allTrees, allRocks, fishList,
              claimedResources, criticalNeeds, fishingAttempts, totalDeaths, pc, tick,
              planLog, replay>>

\* animate, up to its while loop: frameDelta = Math.min(clock.getDelta(), 0.1)
Animate(getDelta) ==
    /\ ~frame.running
    /\ frame.n < MaxFrames
    /\ LET frameDelta == Min(getDelta, 100)
       IN  frame' = [frame EXCEPT
                        !.running = TRUE, !.frameDelta = frameDelta, !.steps = 0,
                        !.simulationAccumulator = @ + frameDelta * simulationSpeed]
    /\ UNCHANGED worldVars
    /\ UNCHANGED notFrame

\* one turn of the while loop
SimulationStep ==
    /\ frame.running
    /\ LoopRuns(frame.simulationAccumulator, frame.steps)
    /\ \E next \in stepSimulation(World) : Becomes(next)
    /\ tick' = tick + 1
    /\ frame' = [frame EXCEPT !.stepDelta = CONFIG.fixedTimestep,
                              !.simulationAccumulator = @ - CONFIG.fixedTimestep,
                              !.steps = @ + 1, !.totalSimSteps = @ + 1]
    /\ UNCHANGED <<simulationSpeed, pc, planLog, replay>>
    /\ UNCHANGED notFrame

\* the while loop is left: updateVisuals(frameDelta) and the display
UpdateVisuals ==
    /\ frame.running
    /\ ~LoopRuns(frame.simulationAccumulator, frame.steps)
    /\ frame' = [frame EXCEPT !.running = FALSE, !.n = @ + 1]
    /\ UNCHANGED worldVars
    /\ UNCHANGED notFrame

NextAnimate ==
    \/ \E getDelta \in GetDeltas : Animate(getDelta)
    \/ SimulationStep
    \/ UpdateVisuals

SpecAnimate == InitAnimate /\ [][NextAnimate]_vars

(***************************************************************************)
(* Properties of the animate loop (SpecAnimate)                            *)
(***************************************************************************)
\* C40: in every frame animate runs at most maxStepsPerFrame (50) simulation
\* steps, each with delta = fixedTimestep, and only while the accumulator
\* holds at least one full timestep
C40_StepsCapped ==
    [][/\ frame'.steps <= CONFIG.maxStepsPerFrame
       /\ tick' # tick
             => /\ frame.running
                /\ frame.simulationAccumulator >= CONFIG.fixedTimestep
                /\ frame'.stepDelta = CONFIG.fixedTimestep
                /\ frame'.steps = frame.steps + 1
                /\ frame'.simulationAccumulator
                      = frame.simulationAccumulator - CONFIG.fixedTimestep]_vars

\* a frame ran into the cap: 50 steps done and a full timestep still held
C40_Witness ==
    /\ frame.steps = CONFIG.maxStepsPerFrame
    /\ frame.simulationAccumulator >= CONFIG.fixedTimestep
    /\ frame.totalSimSteps = tick

====
